---------------------------- MODULE Spec2Model ----------------------------
(***************************************************************************)
(* A model of the layout reconstruction and classification engine of the   *)
(* Partitioner repository: the element classifier, the spatial block       *)
(* merger, the list groupers and the document analyzers.                   *)
(*                                                                         *)
(* Conventions.  A text is a sequence of one-character strings.  A score   *)
(* or confidence is an integer number of hundredths (0.9 is 90).  A font   *)
(* size is an integer number of tenths of a point (12pt is 120).  A        *)
(* coordinate is an integer number of points.                              *)
(***************************************************************************)
EXTENDS Integers, Sequences, FiniteSets, TLC

VARIABLES
    cblock,     \* classification run: the block handed to classify_element
    celem,      \* classification run: the Element of the pipeline (or NoElem)
    cres,       \* classification run: what classify_element returned (or NoElem)
    cpc,        \* classification run: position in the per-block pipeline
    mblocks,    \* merge run: the fragments of one page handed to merge_text_blocks
    mout,       \* merge run: what merge_text_blocks returned for them
    mout2,      \* merge run: what merge_text_blocks returned for its own output
    mpc,        \* merge run: position
    analyzer,   \* analyzer run: the PDFAnalyzer object
    adoc,       \* analyzer run: the pages of the document analysed last
    aresult,    \* analyzer run: what analyze_document returned or raised for it
    astats,     \* analyzer run: what get_document_statistics returned last
    apc,        \* analyzer run: position
    lelems,     \* list run: the classified elements of one page, in page order
    lgroup_lists, \* list run: the group_lists argument of the grouper
    lout,       \* list run: what the list operation returned for them
    luuid,      \* list run: the number of uuid4 values drawn so far
    lpc,        \* list run: position, which names the operation that ran
    einput,     \* caption run: elements_dict before the captions are associated
    eresult,    \* caption run: the outcome of the association loop
    epc,        \* caption run: position
    sdoc,       \* structure run: the pages handed to DocumentStructureAnalyzer.analyze
    smarkers,   \* structure run: the split markers it returned
    spc,        \* structure run: position
    pdoc,       \* pipeline run: the pages of the document given to process_pdf
    prun,       \* pipeline run: the progress and the elements of process_pdf
    ppc,        \* pipeline run: position
    tpage,      \* column run: the page layout handed to PDFTextExtractor
    tcolumns,   \* column run: the columns detect_columns returned for it
    tboxes,     \* column run: the boxes process_page_columns returned for it
    tpc         \* column run: position

cvars == <<cblock, celem, cres, cpc>>
mvars == <<mblocks, mout, mout2, mpc>>
avars == <<analyzer, adoc, aresult, astats, apc>>
lvars == <<lelems, lgroup_lists, lout, luuid, lpc>>
evars == <<einput, eresult, epc>>
svars == <<sdoc, smarkers, spc>>
pvars == <<pdoc, prun, ppc>>
tvars == <<tpage, tcolumns, tboxes, tpc>>
vars == <<cvars, mvars, avars, lvars, evars, svars, pvars, tvars>>

NoElem == [none |-> TRUE]
NoBlock == [none |-> TRUE]

\* Each specification drives one run and leaves the others idle.
IdleClassify == cblock = NoBlock /\ celem = NoElem /\ cres = NoElem /\ cpc = "idle"
IdleMerge == mblocks = <<>> /\ mout = <<>> /\ mout2 = <<>> /\ mpc = "idle"
IdleAnalyzer ==
    analyzer = <<>> /\ adoc = <<>> /\ aresult = <<>> /\ astats = <<>> /\ apc = "idle"
IdleLists ==
    lelems = <<>> /\ lgroup_lists = FALSE /\ lout = <<>> /\ luuid = 0 /\ lpc = "idle"
IdleCaptions == einput = <<>> /\ eresult = <<>> /\ epc = "idle"
IdleStructure == sdoc = <<>> /\ smarkers = <<>> /\ spc = "idle"
IdlePipeline == pdoc = <<>> /\ prun = <<>> /\ ppc = "idle"
IdleColumns == tpage = <<>> /\ tcolumns = <<>> /\ tboxes = <<>> /\ tpc = "idle"
IdleLater == IdleCaptions /\ IdleStructure /\ IdlePipeline /\ IdleColumns
NotClassify == <<mvars, avars, lvars, evars, svars, pvars, tvars>>
NotMerge == <<cvars, avars, lvars, evars, svars, pvars, tvars>>
NotAnalyzer == <<cvars, mvars, lvars, evars, svars, pvars, tvars>>
NotLists == <<cvars, mvars, avars, evars, svars, pvars, tvars>>
NotCaptions == <<cvars, mvars, avars, lvars, svars, pvars, tvars>>
NotStructure == <<cvars, mvars, avars, lvars, evars, pvars, tvars>>
NotPipeline == <<cvars, mvars, avars, lvars, evars, svars, tvars>>
NotColumns == <<cvars, mvars, avars, lvars, evars, svars, pvars>>

-----------------------------------------------------------------------------
(* Characters and the str methods the code uses.                           *)

UpperChars == {"A","B","C","D","E","F","G","H","I","J","K","L","M",
               "N","O","P","Q","R","S","T","U","V","W","X","Y","Z"}
LowerChars == {"a","b","c","d","e","f","g","h","i","j","k","l","m",
               "n","o","p","q","r","s","t","u","v","w","x","y","z"}
DigitChars == {"0","1","2","3","4","5","6","7","8","9"}
SpaceChars == {" ", "\n", "\t"}
PunctChars == {".", ":", ";", ",", "-", "*", "=", "$", "\\", "[", "]", "(", ")",
               "@", "/", "!", "?", "+", "_", "%", "{", "}"}
AlphaChars == UpperChars \cup LowerChars
AlnumChars == AlphaChars \cup DigitChars
WordChars  == AlnumChars \cup {"_"}
Alphabet   == AlnumChars \cup SpaceChars \cup PunctChars

LowerOf == [c \in Alphabet |->
    CASE c = "A" -> "a" [] c = "B" -> "b" [] c = "C" -> "c" [] c = "D" -> "d"
      [] c = "E" -> "e" [] c = "F" -> "f" [] c = "G" -> "g" [] c = "H" -> "h"
      [] c = "I" -> "i" [] c = "J" -> "j" [] c = "K" -> "k" [] c = "L" -> "l"
      [] c = "M" -> "m" [] c = "N" -> "n" [] c = "O" -> "o" [] c = "P" -> "p"
      [] c = "Q" -> "q" [] c = "R" -> "r" [] c = "S" -> "s" [] c = "T" -> "t"
      [] c = "U" -> "u" [] c = "V" -> "v" [] c = "W" -> "w" [] c = "X" -> "x"
      [] c = "Y" -> "y" [] c = "Z" -> "z" [] OTHER -> c]

UpperOf == [c \in Alphabet |->
    IF c \in LowerChars THEN CHOOSE u \in UpperChars : LowerOf[u] = c ELSE c]

\* str.lower()
Lower(t) == [i \in 1..Len(t) |-> LowerOf[t[i]]]

\* str.lstrip(), str.rstrip(), str.strip()
RECURSIVE LStrip(_)
LStrip(t) == IF t # <<>> /\ Head(t) \in SpaceChars THEN LStrip(Tail(t)) ELSE t
RECURSIVE RStrip(_)
RStrip(t) ==
    IF t # <<>> /\ t[Len(t)] \in SpaceChars THEN RStrip(SubSeq(t, 1, Len(t) - 1)) ELSE t
Strip(t) == LStrip(RStrip(t))

\* c in text
HasChar(t, c) == \E i \in 1..Len(t) : t[i] = c

\* sub in text, text.startswith(sub), text.endswith(sub)
StartsAt(t, sub, i) ==
    /\ i + Len(sub) - 1 <= Len(t)
    /\ \A k \in 1..Len(sub) : t[i + k - 1] = sub[k]
Contains(t, sub) == \E i \in 1..(Len(t) + 1) : StartsAt(t, sub, i)
StartsWith(t, sub) == StartsAt(t, sub, 1)
EndsWith(t, sub) == Len(sub) <= Len(t) /\ StartsAt(t, sub, Len(t) - Len(sub) + 1)

\* text.split(): the maximal runs of non-space characters, in order
RECURSIVE SplitFrom(_, _, _)
SplitFrom(t, i, cur) ==
    IF i > Len(t) THEN (IF cur = <<>> THEN <<>> ELSE <<cur>>)
    ELSE IF t[i] \in SpaceChars
         THEN (IF cur = <<>> THEN <<>> ELSE <<cur>>) \o SplitFrom(t, i + 1, <<>>)
         ELSE SplitFrom(t, i + 1, Append(cur, t[i]))
Split(t) == SplitFrom(t, 1, <<>>)

\* ' '.join(words)
RECURSIVE Join(_)
Join(ws) ==
    IF ws = <<>> THEN <<>>
    ELSE IF Len(ws) = 1 THEN ws[1]
    ELSE ws[1] \o <<" ">> \o Join(Tail(ws))

\* str.isupper(): at least one cased character and no lowercase one
IsUpperStr(t) ==
    /\ \E i \in 1..Len(t) : t[i] \in UpperChars
    /\ \A i \in 1..Len(t) : t[i] \notin LowerChars

\* str.isdigit()
IsDigitStr(t) == t # <<>> /\ \A i \in 1..Len(t) : t[i] \in DigitChars

\* str.istitle(): uppercase only after an uncased character, lowercase only
\* after a cased one, and at least one cased character
IsTitleStr(t) ==
    /\ \E i \in 1..Len(t) : t[i] \in AlphaChars
    /\ \A i \in 1..Len(t) :
          LET prevCased == i > 1 /\ t[i - 1] \in AlphaChars
          IN  /\ (t[i] \in UpperChars => ~prevCased)
              /\ (t[i] \in LowerChars => prevCased)

Count(t, S) == Cardinality({i \in 1..Len(t) : t[i] \in S})

Max2(a, b) == IF a >= b THEN a ELSE b
Min2(a, b) == IF a <= b THEN a ELSE b
Abs(a) == IF a >= 0 THEN a ELSE -a

-----------------------------------------------------------------------------
(* Regular expressions of Python's re module, as syntax trees, and their   *)
(* matching.  Ends(r, t, i) is the set of positions at which a match of r  *)
(* that starts at position i of t can end; a position p stands before t[p].*)

ReSet(S)        == [k |-> "set", s |-> S]                   \* [...] , \d , \s , \w
ReNot(S)        == [k |-> "set", s |-> Alphabet \ S]        \* [^...]
ReCh(c)         == [k |-> "set", s |-> {c}]                 \* a literal character
ReCat(rs)       == [k |-> "cat", rs |-> rs]                 \* r1 r2 ...
ReAlt(rs)       == [k |-> "alt", rs |-> rs]                 \* r1 | r2 | ...
ReRep(r, lo, hi) == [k |-> "rep", r |-> r, lo |-> lo, hi |-> hi]  \* r{lo,hi}; hi = -1: no limit
ReOpt(r)        == ReRep(r, 0, 1)                           \* r?
ReStar(r)       == ReRep(r, 0, -1)                          \* r*
RePlus(r)       == ReRep(r, 1, -1)                          \* r+
ReStr(s)        == [k |-> "cat", rs |-> [n \in 1..Len(s) |-> ReCh(s[n])]]  \* a literal string
ReBol           == [k |-> "bol"]                            \* ^
ReEol           == [k |-> "eol"]                            \* $
ReWb            == [k |-> "wb"]                             \* \b
ReAhead(r)      == [k |-> "ahead", r |-> r]                 \* (?=r)
ReNotAhead(r)   == [k |-> "nahead", r |-> r]                \* (?!r)
ReNotBehind(S)  == [k |-> "nbehind", s |-> S]               \* (?<![...])
ReD             == ReSet(DigitChars)                        \* \d
ReS             == ReSet(SpaceChars)                        \* \s
ReW             == ReSet(WordChars)                         \* \w
ReDot           == ReNot({"\n"})                            \* .

IsWordAt(t, i) == i >= 1 /\ i <= Len(t) /\ t[i] \in WordChars

RECURSIVE Ends(_, _, _)
RECURSIVE CatEnds(_, _, _, _)
RECURSIVE RepEnds(_, _, _, _, _, _)

CatEnds(rs, t, S, n) ==
    IF n > Len(rs) \/ S = {} THEN S
    ELSE CatEnds(rs, t, UNION {Ends(rs[n], t, j) : j \in S}, n + 1)

RepEnds(r, t, S, n, lo, hi) ==
    LET here == IF n >= lo THEN S ELSE {}
    IN  IF S = {} \/ n = hi \/ n >= lo + Len(t) + 1 THEN here
        ELSE here \cup RepEnds(r, t, UNION {Ends(r, t, j) : j \in S}, n + 1, lo, hi)

Ends(r, t, i) ==
    CASE r.k = "set"     -> IF i <= Len(t) /\ t[i] \in r.s THEN {i + 1} ELSE {}
      [] r.k = "cat"     -> CatEnds(r.rs, t, {i}, 1)
      [] r.k = "alt"     -> UNION {Ends(r.rs[n], t, i) : n \in 1..Len(r.rs)}
      [] r.k = "rep"     -> RepEnds(r.r, t, {i}, 0, r.lo, r.hi)
      [] r.k = "bol"     -> IF i = 1 THEN {i} ELSE {}
      [] r.k = "eol"     -> IF i = Len(t) + 1 \/ (i = Len(t) /\ t[i] = "\n") THEN {i} ELSE {}
      [] r.k = "wb"      -> IF IsWordAt(t, i - 1) # IsWordAt(t, i) THEN {i} ELSE {}
      [] r.k = "ahead"   -> IF Ends(r.r, t, i) # {} THEN {i} ELSE {}
      [] r.k = "nahead"  -> IF Ends(r.r, t, i) = {} THEN {i} ELSE {}
      [] r.k = "nbehind" -> IF i > 1 /\ t[i - 1] \in r.s THEN {} ELSE {i}

\* re.IGNORECASE: every character set also matches the other case
RECURSIVE ReIC(_)
ReIC(r) ==
    CASE r.k = "set" ->
            ReSet(r.s \cup {LowerOf[c] : c \in r.s} \cup {UpperOf[c] : c \in r.s})
      [] r.k \in {"cat", "alt"} ->
            [k |-> r.k, rs |-> [n \in 1..Len(r.rs) |-> ReIC(r.rs[n])]]
      [] r.k = "rep" -> ReRep(ReIC(r.r), r.lo, r.hi)
      [] r.k \in {"ahead", "nahead"} -> [k |-> r.k, r |-> ReIC(r.r)]
      [] r.k = "nbehind" ->
            ReNotBehind(r.s \cup {LowerOf[c] : c \in r.s} \cup {UpperOf[c] : c \in r.s})
      [] OTHER -> r

\* re.match(r, t), re.search(r, t)
ReMatch(r, t)  == Ends(r, t, 1) # {}
ReSearch(r, t) == \E i \in 1..(Len(t) + 1) : Ends(r, t, i) # {}

-----------------------------------------------------------------------------
(* The regular expressions of the classifier, from their source text.  An  *)
(* alternation is written with its common prefix taken out, as Python's    *)
(* parser reads it.  Alternatives that need a character outside Alphabet   *)
(* (the non-ASCII bullets) cannot match a text of the model and are left   *)
(* out.                                                                    *)

section_pattern ==
    ReCat(<<ReBol, ReCat(<<RePlus(ReD), RePlus(ReCat(<<ReCh("."),
      RePlus(ReD)>>))>>), RePlus(ReS), ReSet(UpperChars)>>)

caption_pattern_1 ==
    ReCat(<<ReAlt(<<ReCat(<<ReStr(<<"f","i","g">>),
      ReOpt(ReAlt(<<ReOpt(ReCh(".")), ReStr(<<"u","r","e">>)>>))>>),
      ReStr(<<"t","a","b","l","e">>), ReStr(<<"c","h","a","r","t">>),
      ReStr(<<"d","i","a","g","r","a","m">>), ReStr(<<"i","m","a","g","e">>),
      ReStr(<<"p","h","o","t","o">>)>>), ReStar(ReS), RePlus(ReD),
      ReStar(ReCat(<<ReCh("."), RePlus(ReD)>>)), ReOpt(ReSet({".", ":"}))>>)

caption_pattern_2 ==
    ReCat(<<ReBol, ReSet(UpperChars \cup LowerChars), ReStar(ReS),
      RePlus(ReD), ReSet({".", ":"})>>)

caption_pattern_3 ==
    ReCat(<<ReBol, ReOpt(ReCh("(")), ReSet(UpperChars \cup LowerChars),
      ReStar(ReS), RePlus(ReD), ReOpt(ReSet({".", ":"})), ReStar(ReS),
      ReNot(LowerChars)>>)

TITLE_RE ==
    ReIC(ReCat(<<ReBol,
      ReAlt(<<ReCat(<<ReAlt(<<ReStr(<<"c","h","a","p","t","e","r">>),
      ReStr(<<"s","e","c","t","i","o","n">>),
      ReStr(<<"a","p","p","e","n","d","i","x">>)>>), RePlus(ReS),
      RePlus(ReD)>>), ReCat(<<ReAlt(<<ReStr(<<"t","a","b","l","e">>),
      ReStr(<<"f","i","g","u","r","e">>),
      ReStr(<<"a","p","p","e","n","d","i","x">>)>>), RePlus(ReS),
      RePlus(ReD), ReSet({"-", ".", ":"}), ReStar(ReS)>>),
      ReCat(<<ReAlt(<<ReStr(<<"t","a","b","l","e"," ","o","f"," ","c","o","n","t","e","n","t","s">>),
      ReStr(<<"i","n","d","e","x">>),
      ReStr(<<"g","l","o","s","s","a","r","y">>),
      ReStr(<<"r","e","f","e","r","e","n","c","e","s">>),
      ReStr(<<"b","i","b","l","i","o","g","r","a","p","h","y">>)>>),
      ReEol>>), ReCat(<<RePlus(ReD), ReCh("."), RePlus(ReD), RePlus(ReS),
      ReSet(UpperChars)>>), ReCat(<<ReStr(<<"I","T","E","M">>), RePlus(ReS),
      RePlus(ReD), ReOpt(ReSet(UpperChars)), ReCh(".")>>),
      ReCat(<<ReRep(ReSet(UpperChars \cup SpaceChars), 10, -1),
      ReEol>>)>>)>>))

UNICODE_BULLETS_RE ==
    ReCat(<<ReSet({"-", "*"}), ReNotAhead(ReSet({"-", "*"}))>>)

UNICODE_BULLETS_RE_0W ==
    ReCat(<<ReAhead(ReSet({"-", "*"})), ReNotBehind({"-", "*"})>>)

ENUMERATED_BULLETS_RE ==
    ReRep(ReCat(<<ReAlt(<<ReRep(ReD, 1, 3), ReCat(<<ReSet(LowerChars),
      ReSet(UpperChars)>>)>>), ReOpt(ReCh("."))>>), 1, 3)

lettered_list_pattern ==
    ReCat(<<ReBol, ReSet(LowerChars \cup UpperChars), ReSet({".", ")"}),
      RePlus(ReS)>>)

HEADER_FOOTER_RE ==
    ReIC(ReCat(<<ReBol, ReAlt(<<ReCat(<<ReSet(UpperChars),
      ReStar(ReSet(UpperChars \cup DigitChars \cup {" ", "_", "-"})),
      ReEol>>), ReCat(<<ReSet(UpperChars), RePlus(ReSet(LowerChars)),
      ReStar(ReCat(<<RePlus(ReS), ReSet(UpperChars),
      RePlus(ReSet(LowerChars))>>)), ReEol>>), ReCat(<<RePlus(ReSet({"I",
      "V", "X"})), ReOpt(ReCh(".")), RePlus(ReS), ReSet(UpperChars)>>),
      ReCat(<<RePlus(ReD), ReCh("."), RePlus(ReS), ReSet(UpperChars)>>),
      ReCat(<<ReSet(UpperChars),
      ReStar(ReSet(UpperChars \cup LowerChars \cup DigitChars \cup {" "})),
      ReCh(":"), ReEol>>),
      ReCat(<<ReAlt(<<ReStr(<<"i","n","t","r","o","d","u","c","t","i","o","n">>),
      ReStr(<<"a","b","s","t","r","a","c","t">>),
      ReCat(<<ReStr(<<"a","c","k","n","o","w","l","e","d","g","m","e","n","t">>),
      ReOpt(ReCh("s"))>>),
      ReStr(<<"r","e","f","e","r","e","n","c","e","s">>),
      ReStr(<<"a","p","p","e","n","d","i","x">>),
      ReStr(<<"g","l","o","s","s","a","r","y">>),
      ReStr(<<"i","n","d","e","x">>),
      ReStr(<<"c","o","n","t","e","n","t","s">>),
      ReStr(<<"t","a","b","l","e"," ","o","f"," ","c","o","n","t","e","n","t","s">>),
      ReCat(<<ReStr(<<"l","i","s","t"," ","o","f"," ">>),
      ReAlt(<<ReStr(<<"f","i","g","u","r","e","s">>),
      ReStr(<<"t","a","b","l","e","s">>)>>)>>)>>), ReEol>>)>>)>>))

REFERENCE_PATTERN_RE ==
    ReCat(<<ReCh("["), ReAlt(<<RePlus(ReD), ReSet(LowerChars), ReSet({"i",
      "v", "x", "l", "c", "d", "m"})>>), ReCh("]")>>)

PAGE_NUMBER_RE ==
    ReIC(ReCat(<<ReBol, ReAlt(<<ReCat(<<RePlus(ReD), ReEol>>),
      ReCat(<<ReCh("-"), ReStar(ReS), RePlus(ReD), ReStar(ReS), ReCh("-"),
      ReEol>>), ReCat(<<ReCh("["), RePlus(ReD), ReCh("]"), ReEol>>),
      ReCat(<<ReStr(<<"P","a","g","e">>), RePlus(ReS), RePlus(ReD), ReEol>>),
      ReCat(<<ReStr(<<"P","a","g","e">>), RePlus(ReS), RePlus(ReD),
      RePlus(ReS), ReStr(<<"o","f">>), RePlus(ReS), RePlus(ReD), ReEol>>),
      ReCat(<<RePlus(ReD), ReStar(ReS), ReCh("/"), ReStar(ReS), RePlus(ReD),
      ReEol>>), ReCat(<<ReCh("p"), ReOpt(ReCh(".")), ReStar(ReS),
      RePlus(ReD), ReEol>>)>>)>>))

FOOTER_RE ==
    ReIC(ReAlt(<<ReStr(<<"c","o","n","f","i","d","e","n","t","i","a","l">>),
      ReCat(<<ReStr(<<"a","l","l">>), RePlus(ReS),
      ReStr(<<"r","i","g","h","t","s">>), RePlus(ReS),
      ReStr(<<"r","e","s","e","r","v","e","d">>)>>),
      ReCat(<<ReStr(<<"i","n","t","e","r","n","a","l">>), RePlus(ReS),
      ReStr(<<"u","s","e">>), RePlus(ReS), ReStr(<<"o","n","l","y">>)>>),
      ReCat(<<ReStr(<<"c","o","p","y","r","i","g","h","t">>), RePlus(ReS),
      ReRep(ReD, 4, 4)>>), ReCat(<<ReStr(<<"p","a","g","e">>), RePlus(ReS),
      RePlus(ReD), RePlus(ReS), ReStr(<<"o","f">>), RePlus(ReS),
      RePlus(ReD)>>), ReCat(<<ReBol, RePlus(ReD), ReEol>>), ReCat(<<ReBol,
      ReCh("-"), ReStar(ReS), RePlus(ReD), ReStar(ReS), ReCh("-"), ReEol>>),
      ReCat(<<ReBol, ReCh("["), RePlus(ReD), ReCh("]"), ReEol>>),
      ReCat(<<ReBol, ReStr(<<"P","a","g","e">>), RePlus(ReS), RePlus(ReD),
      ReEol>>), ReCat(<<ReBol, ReStr(<<"P","a","g","e">>), RePlus(ReS),
      RePlus(ReD), RePlus(ReS), ReStr(<<"o","f">>), RePlus(ReS), RePlus(ReD),
      ReEol>>)>>))

EMAIL_ADDRESS_PATTERN_RE ==
    ReCat(<<RePlus(ReSet(LowerChars \cup DigitChars \cup {".", "-", "+",
      "_"})), ReCh("@"), RePlus(ReSet(LowerChars \cup DigitChars \cup {".",
      "-", "+", "_"})), ReCh("."), RePlus(ReSet(LowerChars))>>)

US_PHONE_NUMBERS_RE ==
    ReCat(<<ReOpt(ReCat(<<ReOpt(ReCh("+")), ReRep(ReD, 1, 3)>>)),
      ReStar(ReSet({"-", ".", " ", "("})), ReOpt(ReRep(ReD, 3, 3)),
      ReStar(ReSet({"-", ".", " ", ")"})), ReRep(ReD, 3, 3),
      ReStar(ReSet({"-", ".", " "})), ReRep(ReD, 4, 4),
      ReOpt(ReCat(<<ReStar(ReCh(" ")), ReCh("x"), RePlus(ReD)>>)),
      ReStar(ReS), ReEol>>)

US_CITY_STATE_ZIP_RE ==
    ReIC(ReCat(<<ReWb, ReRep(ReCat(<<ReSet(UpperChars),
      ReRep(ReSet(LowerChars \cup {".", "-"}), 1, 15), ReOpt(ReCh(" "))>>),
      1, 5), ReCh(","), ReOpt(ReS),
      ReAlt(<<ReStr(<<"{","A","l","a","b","a","m","a">>),
      ReStr(<<"A","l","a","s","k","a">>),
      ReStr(<<"A","r","i","z","o","n","a">>),
      ReStr(<<"A","r","k","a","n","s","a","s">>),
      ReStr(<<"C","a","l","i","f","o","r","n","i","a">>),
      ReStr(<<"C","o","l","o","r","a","d","o">>),
      ReStr(<<"C","o","n","n","e","c","t","i","c","u","t">>),
      ReStr(<<"D","e","l","a","w","a","r","e">>),
      ReStr(<<"F","l","o","r","i","d","a">>),
      ReStr(<<"G","e","o","r","g","i","a">>),
      ReStr(<<"H","a","w","a","i","i">>), ReStr(<<"I","d","a","h","o">>),
      ReStr(<<"I","l","l","i","n","o","i","s">>),
      ReStr(<<"I","n","d","i","a","n","a">>), ReStr(<<"I","o","w","a">>),
      ReStr(<<"K","a","n","s","a","s">>),
      ReStr(<<"K","e","n","t","u","c","k","y">>),
      ReStr(<<"L","o","u","i","s","i","a","n","a">>),
      ReStr(<<"M","a","i","n","e">>),
      ReStr(<<"M","a","r","y","l","a","n","d">>),
      ReStr(<<"M","a","s","s","a","c","h","u","s","e","t","t","s">>),
      ReStr(<<"M","i","c","h","i","g","a","n">>),
      ReStr(<<"M","i","n","n","e","s","o","t","a">>),
      ReStr(<<"M","i","s","s","i","s","s","i","p","p","i">>),
      ReStr(<<"M","i","s","s","o","u","r","i">>),
      ReStr(<<"M","o","n","t","a","n","a">>),
      ReStr(<<"N","e","b","r","a","s","k","a">>),
      ReStr(<<"N","e","v","a","d","a">>),
      ReStr(<<"N","e","w"," ","H","a","m","p","s","h","i","r","e">>),
      ReStr(<<"N","e","w"," ","J","e","r","s","e","y">>),
      ReStr(<<"N","e","w"," ","M","e","x","i","c","o">>),
      ReStr(<<"N","e","w"," ","Y","o","r","k">>),
      ReStr(<<"N","o","r","t","h"," ","C","a","r","o","l","i","n","a">>),
      ReStr(<<"N","o","r","t","h"," ","D","a","k","o","t","a">>),
      ReStr(<<"O","h","i","o">>), ReStr(<<"O","k","l","a","h","o","m","a">>),
      ReStr(<<"O","r","e","g","o","n">>),
      ReStr(<<"P","e","n","n","s","y","l","v","a","n","i","a">>),
      ReStr(<<"R","h","o","d","e"," ","I","s","l","a","n","d">>),
      ReStr(<<"S","o","u","t","h"," ","C","a","r","o","l","i","n","a">>),
      ReStr(<<"S","o","u","t","h"," ","D","a","k","o","t","a">>),
      ReStr(<<"T","e","n","n","e","s","s","e","e">>),
      ReStr(<<"T","e","x","a","s">>), ReStr(<<"U","t","a","h">>),
      ReStr(<<"V","e","r","m","o","n","t">>),
      ReStr(<<"V","i","r","g","i","n","i","a">>),
      ReStr(<<"W","a","s","h","i","n","g","t","o","n">>),
      ReStr(<<"W","e","s","t"," ","V","i","r","g","i","n","i","a">>),
      ReStr(<<"W","i","s","c","o","n","s","i","n">>),
      ReStr(<<"W","y","o","m","i","n","g","}">>), ReStr(<<"{","A","L">>),
      ReStr(<<"A","K">>), ReStr(<<"A","S">>), ReStr(<<"A","Z">>),
      ReStr(<<"A","R">>), ReStr(<<"C","A">>), ReStr(<<"C","O">>),
      ReStr(<<"C","T">>), ReStr(<<"D","E">>), ReStr(<<"D","C">>),
      ReStr(<<"F","M">>), ReStr(<<"F","L">>), ReStr(<<"G","A">>),
      ReStr(<<"G","U">>), ReStr(<<"H","I">>), ReStr(<<"I","D">>),
      ReStr(<<"I","L">>), ReStr(<<"I","N">>), ReStr(<<"I","A">>),
      ReStr(<<"K","S">>), ReStr(<<"K","Y">>), ReStr(<<"L","A">>),
      ReStr(<<"M","E">>), ReStr(<<"M","H">>), ReStr(<<"M","D">>),
      ReStr(<<"M","A">>), ReStr(<<"M","I">>), ReStr(<<"M","N">>),
      ReStr(<<"M","S">>), ReStr(<<"M","O">>), ReStr(<<"M","T">>),
      ReStr(<<"N","E">>), ReStr(<<"N","V">>), ReStr(<<"N","H">>),
      ReStr(<<"N","J">>), ReStr(<<"N","M">>), ReStr(<<"N","Y">>),
      ReStr(<<"N","C">>), ReStr(<<"N","D">>), ReStr(<<"M","P">>),
      ReStr(<<"O","H">>), ReStr(<<"O","K">>), ReStr(<<"O","R">>),
      ReStr(<<"P","W">>), ReStr(<<"P","A">>), ReStr(<<"P","R">>),
      ReStr(<<"R","I">>), ReStr(<<"S","C">>), ReStr(<<"S","D">>),
      ReStr(<<"T","N">>), ReStr(<<"T","X">>), ReStr(<<"U","T">>),
      ReStr(<<"V","T">>), ReStr(<<"V","I">>), ReStr(<<"V","A">>),
      ReStr(<<"W","A">>), ReStr(<<"W","V">>), ReStr(<<"W","I">>),
      ReStr(<<"W","Y","}">>)>>), ReOpt(ReAlt(<<ReStr(<<","," ">>), ReS>>)),
      ReWb, ReRep(ReD, 5, 5), ReOpt(ReCat(<<ReCh("-"), ReRep(ReD, 4, 4)>>)),
      ReWb>>))

-----------------------------------------------------------------------------
(* processor/text_analysis.py                                              *)

caption_indicators == {
    <<"f","i","g","u","r","e">>, <<"f","i","g">>, <<"t","a","b","l","e">>, <<"c","h","a","r","t">>,
    <<"d","i","a","g","r","a","m">>, <<"i","l","l","u","s","t","r","a","t","i","o","n">>,
    <<"i","m","a","g","e">>, <<"p","h","o","t","o">>, <<"s","o","u","r","c","e",":">>,
    <<"c","r","e","d","i","t",":">>, <<"c","a","p","t","i","o","n",":">>, <<"p","l","a","t","e">>,
    <<"g","r","a","p","h">>, <<"e","x","h","i","b","i","t">>, <<"p","a","n","e","l">>,
    <<"d","r","a","w","i","n","g">>, <<"s","k","e","t","c","h">>, <<"p","i","c","t","u","r","e">>,
    <<"m","a","p">>, <<"p","h","o","t","o","g","r","a","p","h">>,
    <<"e","q","u","a","t","i","o","n">>, <<"f","o","r","m","u","l","a">>,
    <<"a","l","g","o","r","i","t","h","m">>, <<"c","o","d","e">>, <<"e","x","a","m","p","l","e">>,
    <<"p","r","o","g","r","a","m">>, <<"s","c","r","i","p","t">>,
    <<"s","c","h","e","m","a","t","i","c">>, <<"f","l","o","w","c","h","a","r","t">>,
    <<"g","r","a","p","h","i","c">>, <<"v","i","s","u","a","l","i","z","a","t","i","o","n">>,
    <<"p","l","o","t">>, <<"l","i","s","t","i","n","g">>, <<"l","e","f","t",":">>,
    <<"r","i","g","h","t",":">>, <<"t","o","p",":">>, <<"b","o","t","t","o","m",":">>,
    <<"f","r","o","m",":">>, <<"c","o","u","r","t","e","s","y"," ","o","f">>,
    <<"c","o","p","y","r","i","g","h","t">>, <<"c","r","e","d","i","t">>,
    <<"p","h","o","t","o","g","r","a","p","h"," ","b","y">>, <<"i","m","a","g","e"," ","b","y">>,
    <<"p","h","o","t","o"," ","b","y">>}

\* get_text_stats.  The counts behind the three ratios are kept, so that a
\* ratio test is an exact comparison of integers.  sentence_count is what
\* nltk's sent_tokenize answers: an input, sents.
get_text_stats(text, sents) ==
    LET chars   == {i \in 1..Len(text) : text[i] \notin SpaceChars}
        toks    == Split(text)
        words   == SelectSeq(toks, LAMBDA w : \E i \in 1..Len(w) : w[i] \in AlphaChars)
        capw    == SelectSeq(words, LAMBDA w : w[1] \in UpperChars \/ IsUpperStr(w))
    IN  [ char_count     |-> Cardinality(chars),
          alpha_count    |-> Cardinality({i \in chars : text[i] \in AlphaChars}),
          special_count  |-> Cardinality({i \in chars : text[i] \notin AlnumChars}),
          word_count     |-> Len(words),
          cap_count      |-> Len(capw),
          sentence_count |-> IF text = <<>> THEN 0 ELSE sents,
          is_title_case  |-> IsTitleStr(text),
          is_all_caps    |-> IsUpperStr(text) ]

\* alpha_ratio < 0.5, cap_ratio > 0.7, special_ratio > 0.3
AlphaRatioLow(stats)    == stats.char_count = 0 \/ 2 * stats.alpha_count < stats.char_count
CapRatioHigh(stats)     == stats.word_count > 0 /\ 10 * stats.cap_count > 7 * stats.word_count
SpecialRatioHigh(stats) == 10 * stats.special_count > 3 * stats.char_count

\* a faulty variant of Clamp01: the score is returned as it was summed
Unclamped(c) == c

\* min(1.0, max(0.0, confidence))
Clamp01(c) == Min2(100, Max2(0, c))

\* is_possible_title: (is_title, confidence)
is_possible_title(text0, style_info, sents) ==
    LET text   == Strip(text0)
        stats  == get_text_stats(text, sents)
        lower  == Lower(text)
        fs     == style_info.font_size
        med    == style_info.median_font_size
        \* size_ratio = font_size / median_size if median_size > 0 else 1.0
        ratioGt(n, d) == IF med > 0 THEN d * fs > n * med ELSE d > n
        c0  == IF ReMatch(section_pattern, text) THEN 80 ELSE 0
        c1  == c0 + (IF stats.word_count <= 1 THEN 10 ELSE 0)
        c2  == c1 + (IF ReSearch(TITLE_RE, text) /\ stats.word_count > 1 THEN 30 ELSE 0)
        c3  == c2 + (IF ratioGt(15, 10) THEN 40
                     ELSE IF ratioGt(13, 10) THEN 20
                     ELSE IF ratioGt(11, 10) THEN 10 ELSE 0)
        c4  == c3 + (IF style_info.is_bold /\ ratioGt(12, 10) THEN 20
                     ELSE IF style_info.is_bold THEN 10 ELSE 0)
        c5  == c4 - (IF style_info.is_italic THEN 10 ELSE 0)
        c6  == c5 - (IF AlphaRatioLow(stats) THEN 20 ELSE 0)
        c7  == c6 + (IF stats.is_title_case /\ stats.word_count > 1 THEN 30
                     ELSE IF text # <<>> /\ text[1] \in UpperChars THEN 10 ELSE 0)
        c8  == c7 - (IF HasChar(text, ":") /\ stats.word_count < 4 THEN 30 ELSE 0)
        c9  == Clamp01(c8)
        c10 == c9 + (IF CapRatioHigh(stats) THEN 15 ELSE 0)
        c11 == c10 - (IF SpecialRatioHigh(stats) THEN 20 ELSE 0)
        c12 == c11 + (IF style_info.y_position >= 0
                         /\ (style_info.y_position < 15 \/ style_info.y_position > 90)
                      THEN 10 ELSE 0)
        c13 == c12 - (IF stats.sentence_count > 1 THEN 20 ELSE 0)
        c14 == c13 - (IF text # <<>> /\ text[Len(text)] \in {".", "!", "?"} THEN 10 ELSE 0)
        no  == [is_title |-> FALSE, confidence |-> 0]
    IN  IF Len(text0) < 2 THEN no
        ELSE IF \E ind \in caption_indicators : Contains(lower, ind) THEN no
        ELSE IF \/ ReSearch(caption_pattern_1, lower)
                \/ ReSearch(caption_pattern_2, lower)
                \/ ReSearch(caption_pattern_3, lower) THEN no
        ELSE IF stats.word_count > 12 THEN no
        ELSE [is_title |-> c14 > 35, confidence |-> Clamp01(c14)]

\* is_list_item
is_list_item(text0) ==
    LET text       == Strip(text0)
        toks       == Split(text)
        first_word == toks[1]
        rest       == Strip(SubSeq(text, Len(first_word) + 1, Len(text)))
        rest2      == Strip(SubSeq(text, 3, Len(text)))
        lettered   ==
            IF ReMatch(lettered_list_pattern, text)
            THEN ~(rest2 # <<>> /\ rest2[1] \in UpperChars)
            ELSE FALSE
    IN  IF text = <<>> THEN FALSE
        ELSE IF ReMatch(UNICODE_BULLETS_RE, text) \/ ReMatch(UNICODE_BULLETS_RE_0W, text)
        THEN TRUE
        ELSE IF ReMatch(ENUMERATED_BULLETS_RE, first_word) /\ Len(toks) > 1
        THEN IF Count(first_word, {"."}) > 1 THEN FALSE
             ELSE IF HasChar(first_word, ".") /\ Len(first_word) > 2 THEN FALSE
             ELSE IF HasChar(first_word, ")") \/ HasChar(first_word, "]") THEN FALSE
             ELSE IF rest # <<>> /\ rest[1] \in UpperChars THEN FALSE
             ELSE TRUE
        ELSE lettered

is_header_footer(text) == ReSearch(HEADER_FOOTER_RE, Lower(text))
is_footnote(text)      == ReSearch(REFERENCE_PATTERN_RE, Strip(text))
is_page_number(text)   == ReMatch(PAGE_NUMBER_RE, Strip(text))
is_footer(text)        == ReSearch(FOOTER_RE, Strip(text))
is_contact_info(text)  ==
    \/ ReMatch(US_CITY_STATE_ZIP_RE, Strip(text))
    \/ ReMatch(EMAIL_ADDRESS_PATTERN_RE, Strip(text))
    \/ ReSearch(US_PHONE_NUMBERS_RE, Strip(text))

-----------------------------------------------------------------------------
(* processor/data_models.py, processor/caption_detector.py and             *)
(* processor/element_classifier.py                                         *)

\* ElementType: a member is its value, so the legacy aliases are the same
\* member (UNKNOWN is DISCARDED; FOOTER, PAGE_NUMBER, CAPTION are TEXT)
ElementType == {"TITLE", "TEXT", "BLOCK_EQUATION", "LIST_ITEM", "LIST", "INDEX",
                "TABLE_BODY", "TABLE_CAPTION", "TABLE_FOOTNOTE",
                "FIGURE", "FIGURE_CAPTION", "FIGURE_FOOTNOTE", "DISCARDED"}
UNKNOWN == "DISCARDED"

\* Element, with metadata.confidence as a field
Element(text, element_type, bbox, confidence) ==
    [text |-> text, element_type |-> element_type, bbox |-> bbox, confidence |-> confidence]

\* CoordinatesMetadata.__post_init__: relative_y = y0 / page_height when both
\* page dimensions are non-zero, else 0.0; RelativeYAbove(b, p, n) is
\* relative_y > n/100 and RelativeYBelow(b, p, n) is relative_y < n/100
RelativeYAbove(bbox, page_info, n) ==
    IF page_info.width # 0 /\ page_info.height # 0
    THEN 100 * bbox[2] > n * page_info.height ELSE 0 > n
RelativeYBelow(bbox, page_info, n) ==
    IF page_info.width # 0 /\ page_info.height # 0
    THEN 100 * bbox[2] < n * page_info.height ELSE 0 < n

\* is_likely_caption, called with a non-empty elements_before, which is how
\* classify_element calls it (line 106): after the early returns, step 11
\* (line 237) reads the name ElementType, which the module never imports, so
\* the call raises NameError.
is_likely_caption(text, bbox, elements_before) ==
    LET t == Strip(text)
        none == [raised |-> FALSE, is_caption |-> FALSE, confidence |-> 0]
    IN  IF t = <<>> \/ Len(bbox) < 4 THEN none
        ELSE IF Len(Split(t)) > 50 \/ Len(t) > 400 THEN none
        ELSE [raised |-> TRUE, is_caption |-> FALSE, confidence |-> 0]

\* classify_element lines 123-174: is a figure or table found above the block
\* among the last four elements_before
figure_found(bbox, elements_before) ==
    \E i \in 1..Min2(4, Len(elements_before)) :
        LET prev   == elements_before[Len(elements_before) + 1 - i]
            pb     == prev.bbox
            width  == pb[3] - pb[1]
            height == pb[4] - pb[2]
            gap    == bbox[2] - pb[4]
            ovl    == Max2(0, Min2(bbox[3], pb[3]) - Max2(bbox[1], pb[1]))
            cw     == bbox[3] - bbox[1]
        IN  /\ prev.element_type # "TEXT"
            /\ ~(width < 80 \/ height < 60)
            /\ ~(gap < 0 \/ gap > 60)
            /\ (cw > 0 => ~(10 * ovl < 6 * cw))
            /\ \/ prev.element_type \in {"FIGURE", "FIGURE_CAPTION", "FIGURE_FOOTNOTE",
                                         "TABLE_BODY", "TABLE_CAPTION", "TABLE_FOOTNOTE"}
               \/ (height > 0 /\ 10 * width > 4 * height /\ 10 * width < 25 * height)

\* a faulty variant of discarded_element: the default confidence is kept
discarded_element_default(bbox) == Element(<<>>, "DISCARDED", bbox, 70)

\* lines 62-73: the element returned for a text that is empty once stripped
discarded_element(bbox) == Element(<<>>, "DISCARDED", bbox, 100)

\* lines 80-83: the section-header rule, on the answer of is_possible_title
is_section_title(text, title) ==
    title.is_title /\ title.confidence > 60 /\ ReMatch(section_pattern, text)

\* line 95: the rule for other titles
is_generic_title(title) == title.is_title /\ title.confidence > 40

\* line 101: the block-equation check
is_block_equation(text) ==
    HasChar(text, "=") /\ (HasChar(text, "\\") \/ HasChar(text, "$"))

\* lines 106-177: the caption rule; an exception of is_likely_caption is
\* caught and logged (lines 198-200)
is_caption_of_figure(text, bbox, elements_before) ==
    LET cap == is_likely_caption(text, bbox, elements_before)
    IN  /\ elements_before # <<>>
        /\ ~cap.raised /\ cap.is_caption /\ cap.confidence > 60
        /\ figure_found(bbox, elements_before)

\* lines 203, 208, 213, 218: the rules of the page furniture
page_number_rule(text, bbox, page_info) ==
    is_page_number(text) /\ RelativeYAbove(bbox, page_info, 85)
header_footer_rule(text, bbox, page_info) ==
    /\ (is_footer(text) \/ is_header_footer(text))
    /\ (RelativeYAbove(bbox, page_info, 85) \/ RelativeYBelow(bbox, page_info, 15))
footnote_rule(text, bbox, page_info) ==
    is_footnote(text) /\ RelativeYBelow(bbox, page_info, 15)
contact_info_rule(text) == is_contact_info(text)

\* The type and confidence classify_element has chosen so far, passed from
\* one rule to the next.
Chosen(element_type, confidence, is_list) ==
    [element_type |-> element_type, confidence |-> confidence, is_list |-> is_list]

\* lines 76-85: the default, and 1. section headers
section_header_step(text, title) ==
    IF is_section_title(text, title)
    THEN Chosen("TITLE", Max2(90, title.confidence), FALSE)
    ELSE Chosen("TEXT", 70, FALSE)

\* lines 87-92: 2. list items
list_item_step(text, c) ==
    IF c.element_type # "TITLE" /\ is_list_item(text)
    THEN Chosen("LIST_ITEM", 90, TRUE) ELSE c

\* lines 94-98: 3. other titles
generic_title_step(title, c) ==
    IF c.element_type = "TEXT" /\ is_generic_title(title)
    THEN Chosen("TITLE", Max2(c.confidence, title.confidence), c.is_list) ELSE c

\* lines 100-103: 3. block equations
block_equation_step(text, c) ==
    IF is_block_equation(text) THEN Chosen("BLOCK_EQUATION", 90, c.is_list) ELSE c

\* lines 105-200: 4. captions; a caption found returns at once when its
\* confidence is above 0.75 (line 196)
caption_step(text, bbox, elements_before, cap, c) ==
    IF /\ ~c.is_list /\ c.element_type = "TEXT"
       /\ is_caption_of_figure(text, bbox, elements_before)
    THEN [element_type |-> "FIGURE_CAPTION",
          confidence |-> Min2(95, (11 * cap.confidence) \div 10),
          is_list |-> c.is_list, returned |-> Min2(95, (11 * cap.confidence) \div 10) > 75]
    ELSE [element_type |-> c.element_type, confidence |-> c.confidence,
          is_list |-> c.is_list, returned |-> FALSE]

\* lines 202-220: 5. page numbers, 6. footers and headers, 7. footnotes,
\* 8. contact information
page_furniture_step(text, bbox, page_info, c) ==
    IF c.returned THEN Element(text, c.element_type, bbox, c.confidence)
    ELSE IF page_number_rule(text, bbox, page_info) THEN Element(text, "TEXT", bbox, 98)
    ELSE IF \/ header_footer_rule(text, bbox, page_info)
            \/ footnote_rule(text, bbox, page_info)
            \/ contact_info_rule(text)
    THEN Element(text, "TEXT", bbox, 90)
    ELSE Element(text, c.element_type, bbox, c.confidence)

\* lines 75-231: the rules in the order of the code, for a stripped text
\* that is not empty and the answer of is_possible_title for it
classify_text(text, bbox, title, page_info, elements_before) ==
    page_furniture_step(text, bbox, page_info,
        caption_step(text, bbox, elements_before,
            is_likely_caption(text, bbox, elements_before),
            block_equation_step(text,
                generic_title_step(title,
                    list_item_step(text, section_header_step(text, title))))))

\* context.get('median_font_size', 12): doc_stats of process_pdf has no such
\* key, so the default is what the pipeline classifies with
DefaultMedianFontSize == 120

\* line 54, context.get('median_font_size', 12): a context is a record, and a
\* key it lacks is a field it does not have
context_median_font_size(context) ==
    IF "median_font_size" \in DOMAIN context THEN context.median_font_size
    ELSE DefaultMedianFontSize

\* line 54: the style_info is_possible_title is given
title_style_info(style_info, context) ==
    [style_info EXCEPT !.median_font_size = context_median_font_size(context)]

\* classify_element
classify_element(text0, bbox, style_info, page_info, context, elements_before, sents) ==
    IF Strip(text0) = <<>> THEN discarded_element(bbox)
    ELSE classify_text(Strip(text0), bbox,
             is_possible_title(Strip(text0), title_style_info(style_info, context), sents),
             page_info, elements_before)

-----------------------------------------------------------------------------
(* processor/pipeline.py, process_pdf: one block of a page on its way to   *)
(* an Element                                                              *)

table_caption_re ==
    ReIC(ReCat(<<ReBol, ReStr(<<"T","a","b","l","e">>), RePlus(ReS),
      RePlus(ReD), ReOpt(ReSet({":", "."})), ReStar(ReS), ReEol>>))

figure_caption_re ==
    ReIC(ReCat(<<ReBol, ReStr(<<"F","i","g","u","r","e">>), RePlus(ReS),
      RePlus(ReD), ReOpt(ReSet({":", "."})), ReStar(ReS), ReEol>>))

numbered_item_re ==
    ReCat(<<ReBol, ReStar(ReS), RePlus(ReD), ReSet({".", ")"}), RePlus(ReS)>>)

bullet_item_re ==
    ReCat(<<ReBol, ReStar(ReS), ReSet({"-", "*"}), RePlus(ReS)>>)

\* the style_info of _extract_text_blocks has the keys font, size, is_bold,
\* is_italic and median_font_size: a reader of 'font_size' or 'y_position'
\* finds none (font_size 0 and y_position -1 stand for an absent key)
extracted_style_info(style) ==
    [font_size |-> 0, is_bold |-> style.is_bold, is_italic |-> style.is_italic,
     y_position |-> -1, median_font_size |-> style.font_size]

\* lines 315-375: the Element made from a block, or no element when the
\* attribute ElementType.HEADING, which the enumeration lacks, is read
create_element(block) ==
    LET block_text == Strip(block.text)
        typed ==
            IF ReMatch(table_caption_re, block_text) THEN "TABLE_CAPTION"
            ELSE IF ReMatch(figure_caption_re, block_text) THEN "FIGURE_CAPTION"
            ELSE IF ReMatch(numbered_item_re, block_text) \/ ReMatch(bullet_item_re, block_text)
            THEN "LIST_ITEM"
            ELSE IF block.style_info.is_bold /\ Len(Split(block_text)) < 10 THEN "raise"
            ELSE UNKNOWN
    IN  IF typed = "raise" THEN [dropped |-> TRUE, element |-> NoElem]
        ELSE [dropped |-> FALSE, element |-> Element(block_text, typed, block.bbox, 0)]

fallback_keywords ==
    {<<"t","a","b","l","e">>, <<"f","i","g","u","r","e">>, <<"c","h","a","r","t">>,
     <<"d","i","a","g","r","a","m">>}

\* lines 404-445: the type and confidence the element takes from the
\* classified element, with the fallbacks for a type still unknown
typed_element(element, classified) ==
    LET t1 == IF classified.element_type # UNKNOWN
              THEN classified.element_type ELSE element.element_type
        fb == IF t1 # UNKNOWN THEN t1
              ELSE IF \E kw \in fallback_keywords : Contains(Lower(element.text), kw) THEN "TEXT"
              ELSE IF Len(Split(element.text)) < 5 /\ EndsWith(element.text, <<":">>) THEN "raise"
              ELSE IF IsDigitStr(Strip(element.text)) /\ Len(Strip(element.text)) < 5 THEN "TEXT"
              ELSE IF Strip(element.text) \in {<<"-">>, <<"*">>} THEN "LIST_ITEM"
              ELSE t1
    IN  IF fb = "raise" THEN [element EXCEPT !.element_type = "TEXT", !.confidence = 0]
        ELSE [element EXCEPT !.element_type = fb,
                             !.confidence = Max2(element.confidence, classified.confidence)]

\* lines 380-447: the element after its classification
classify_page_element(element, block, page_info) ==
    typed_element(element,
        classify_element(element.text, element.bbox,
            extracted_style_info(block.style_info), page_info,
            [median_font_size |-> DefaultMedianFontSize], block.before, block.sents))

-----------------------------------------------------------------------------
(* The classification of one block: directly by classify_element, or on    *)
(* the way through process_pdf.                                            *)

SampleTexts == {
    <<>>,
    <<" "," ">>,
    <<"1",".","2"," ","M","e","t","h","o","d","o","l","o","g","y">>,
    <<"1",".","2"," ","M","a","p","p","i","n","g">>,
    <<"1",".","2"," ","C","a","l","l"," ","5","5","5"," ","1","2","3"," ","4","5","6","7">>,
    <<"-"," ","i","t","e","m">>,
    <<"1","."," ","i","t","e","m">>,
    <<"P","a","g","e"," ","3">>,
    <<"S","E","C","T","I","O","N"," ","O","N","E">>,
    <<"T","h","i","s"," ","i","s"," ","a"," ","t","e","s","t",".">>,
    <<"1",".","2"," ","C","o","s","t"," ","="," ","$","5">>,
    <<"a","@","b",".","c","o">>,
    <<"I","n","t","r","o"," ","[","3","]">>,
    <<"3">>,
    <<"S","u","m","m","a","r","y",":">>,
    <<"F","i","g","u","r","e"," ","2",":"," ","S","a","m","p","l","e"," ","c","h","a","r","t",
      " ","s","h","o","w","i","n","g"," ","r","e","s","u","l","t","s">> }

FontSizes   == {0, 120, 168, 240}     \* absent, body size, 1.4 and 2 times body size
YPositions  == {-1, 5}                \* style_info['y_position']: absent, 0.05
PageInfo    == [width |-> 600, height |-> 800]
BlockTops   == {40, 400, 700}         \* y0: relative_y 0.05, 0.5, 0.875
SentCounts  == {1, 2}                 \* answers of sent_tokenize

SampleBBox(y0) == <<50, y0, 300, y0 + 12>>

\* a figure that ends 10 points above a block that starts at y0
FigureAbove(y0) == Element(<<>>, "FIGURE", <<50, y0 - 110, 300, y0 - 10>>, 0)

SampleBlocks ==
    { [text |-> t, bbox |-> SampleBBox(y0),
       style_info |-> [font_size |-> fs, is_bold |-> b, is_italic |-> it,
                       y_position |-> yp, median_font_size |-> fs],
       before |-> bf, sents |-> sc] :
      t \in SampleTexts, y0 \in BlockTops, fs \in FontSizes, b \in BOOLEAN,
      it \in BOOLEAN, yp \in YPositions,
      bf \in {<<>>, <<FigureAbove(400)>>}, sc \in SentCounts }

InitClassify ==
    /\ cblock = NoBlock
    /\ celem = NoElem
    /\ cres = NoElem
    /\ cpc = "start"
    /\ IdleMerge /\ IdleAnalyzer /\ IdleLists /\ IdleLater

\* a block comes to be classified
TakeBlock ==
    /\ cpc = "start"
    /\ \E b \in SampleBlocks : cblock' = b
    /\ cpc' = "block"
    /\ UNCHANGED <<celem, cres>>
    /\ UNCHANGED NotClassify

\* a caller classifies the block with classify_element
ClassifyElement ==
    /\ cpc = "block"
    /\ cres' = classify_element(cblock.text, cblock.bbox, cblock.style_info, PageInfo,
                                [median_font_size |-> DefaultMedianFontSize],
                                cblock.before, cblock.sents)
    /\ cpc' = "called"
    /\ UNCHANGED <<cblock, celem>>
    /\ UNCHANGED NotClassify

\* process_pdf makes an Element of the block; _extract_text_blocks gives it
\* stripped, non-empty text and none of the keys font_size and y_position
CreateElement ==
    /\ cpc = "block"
    /\ Strip(cblock.text) = cblock.text /\ cblock.text # <<>>
    /\ cblock.style_info.y_position = -1
    /\ LET made == create_element(cblock)
       IN  /\ celem' = made.element
           /\ cpc' = IF made.dropped THEN "dropped" ELSE "created"
    /\ UNCHANGED <<cblock, cres>>
    /\ UNCHANGED NotClassify

\* process_pdf classifies the Element
ClassifyPageElement ==
    /\ cpc = "created"
    /\ celem' = classify_page_element(celem, cblock, PageInfo)
    /\ cpc' = "classified"
    /\ UNCHANGED <<cblock, cres>>
    /\ UNCHANGED NotClassify

NextClassify == TakeBlock \/ ClassifyElement \/ CreateElement \/ ClassifyPageElement

SpecClassify == InitClassify /\ [][NextClassify]_vars

-----------------------------------------------------------------------------
(* Properties of the classification.                                       *)

\* what is_possible_title answers for the block classify_element was given
TitleOfBlock ==
    is_possible_title(Strip(cblock.text),
        title_style_info(cblock.style_info, [median_font_size |-> DefaultMedianFontSize]),
        cblock.sents)

\* C1: the type classify_element returns is the type of the first rule, in
\* the order section title, list marker, caption, other title, that matches
\* the block: no rule further down the order changes it.
C1_PriorityCascade ==
    (cpc = "called" /\ Strip(cblock.text) # <<>>) =>
        LET text == Strip(cblock.text)
            sec  == is_section_title(text, TitleOfBlock)
            lst  == is_list_item(text)
            cap  == is_caption_of_figure(text, cblock.bbox, cblock.before)
            gen  == is_generic_title(TitleOfBlock)
        IN  /\ sec => cres.element_type = "TITLE"
            /\ (~sec /\ lst) => cres.element_type = "LIST_ITEM"
            /\ (~sec /\ ~lst /\ ~cap /\ gen) => cres.element_type = "TITLE"

\* C7: a text that is empty or only whitespace is returned as DISCARDED with
\* confidence 1.0.
C7_EmptyTextDiscarded ==
    (cpc = "called" /\ Strip(cblock.text) = <<>>) =>
        (cres.element_type = "DISCARDED" /\ cres.confidence = 100)

C7_Witness ==
    /\ cpc = "called"
    /\ cblock.text = <<" ", " ">>
    /\ cblock.style_info.is_bold
    /\ cres.element_type = "DISCARDED"

\* C8: a bold text at 1.4 times the body size or more that starts with a
\* multi-level section number and a capital letter is returned as TITLE with
\* confidence at least 0.9.
C8_SectionHeadingIsTitle ==
    ( /\ cpc = "called"
      /\ ReMatch(section_pattern, Strip(cblock.text))
      /\ cblock.style_info.is_bold
      /\ 10 * cblock.style_info.font_size >= 14 * DefaultMedianFontSize )
    => (cres.element_type = "TITLE" /\ cres.confidence >= 90)

\* C9: every confidence stored in an element lies between 0.0 and 1.0, for
\* the element classify_element returns and for the element of process_pdf.
C9_ConfidenceInUnitInterval ==
    /\ cpc = "called" => (cres.confidence >= 0 /\ cres.confidence <= 100)
    /\ cpc \in {"created", "classified"} => (celem.confidence >= 0 /\ celem.confidence <= 100)

\* the title score of the block sums to 1.05 before it is clamped, and the
\* block is returned as a title with confidence 1.0
C9_Witness ==
    /\ cpc = "called"
    /\ cblock.text = <<"P","a","g","e"," ","3">>
    /\ cblock.style_info.is_bold /\ cblock.style_info.font_size = 240
    /\ cblock.style_info.y_position = 5
    /\ cres.element_type = "TITLE"
    /\ cres.confidence = 100

\* the share of the block's width that lies under element e, in percent, is
\* at least n
OverlapAtLeast(bbox, e, n) ==
    100 * Max2(0, Min2(bbox[3], e.bbox[3]) - Max2(bbox[1], e.bbox[1])) >= n * (bbox[3] - bbox[1])

\* a figure among the elements before the block ends 10pt above the block and
\* covers at least 90% of its width
FigureCloseAbove ==
    \E n \in 1..Len(cblock.before) :
        /\ cblock.before[n].element_type = "FIGURE"
        /\ cblock.bbox[2] - cblock.before[n].bbox[4] = 10
        /\ OverlapAtLeast(cblock.bbox, cblock.before[n], 90)

\* every figure among the elements before the block is 200pt or more away
NoFigureWithin200 ==
    \A n \in 1..Len(cblock.before) :
        cblock.before[n].element_type = "FIGURE" =>
            \/ cblock.bbox[2] - cblock.before[n].bbox[4] >= 200
            \/ cblock.before[n].bbox[2] - cblock.bbox[4] >= 200

\* C11: the text "Figure 2: Sample chart showing results" 10pt below a figure
\* that covers at least 90% of its width is returned as FIGURE_CAPTION with a
\* confidence above 0.7; with no figure within 200pt it is returned as no
\* caption.
C11_CaptionBelowFigure ==
    ( /\ cpc = "called"
      /\ StartsWith(cblock.text, <<"F","i","g","u","r","e"," ","2",":">>) )
    => /\ FigureCloseAbove =>
            (cres.element_type = "FIGURE_CAPTION" /\ cres.confidence > 70)
       /\ NoFigureWithin200 =>
            cres.element_type \notin {"FIGURE_CAPTION", "TABLE_CAPTION"}

-----------------------------------------------------------------------------
(* processor/spatial_grouper.py.  A block is a record of its text, bbox,   *)
(* style_info, element_type ("none": no such key) and the page_height and  *)
(* page_width it carries (0: no such key).                                 *)

Block(text, bbox, style_info, element_type, page_width, page_height) ==
    [text |-> text, bbox |-> bbox, style_info |-> style_info,
     element_type |-> element_type, page_width |-> page_width, page_height |-> page_height]

BoxArea(b) == (b[3] - b[1]) * (b[4] - b[2])

\* the bounding box of two boxes
Hull(a, b) == <<Min2(a[1], b[1]), Min2(a[2], b[2]), Max2(a[3], b[3]), Max2(a[4], b[4])>>

\* the area two boxes share
InterArea(a, b) ==
    Max2(0, Min2(a[3], b[3]) - Max2(a[1], b[1])) * Max2(0, Min2(a[4], b[4]) - Max2(a[2], b[2]))

RECURSIVE HullOf(_)
HullOf(bs) == IF Len(bs) = 1 THEN bs[1].bbox ELSE Hull(bs[1].bbox, HullOf(Tail(bs)))

\* max(blocks, key=area): the first block of the largest area
RECURSIVE LargestBlock(_)
LargestBlock(bs) ==
    IF Len(bs) = 1 THEN bs[1]
    ELSE LET rest == LargestBlock(Tail(bs))
         IN  IF BoxArea(bs[1].bbox) >= BoxArea(rest.bbox) THEN bs[1] ELSE rest

\* lines 314-322: the texts of a group, joined
RECURSIVE MergedText(_, _, _)
MergedText(bs, i, acc) ==
    IF i > Len(bs) THEN acc
    ELSE MergedText(bs, i + 1, RStrip(acc) \o <<" ">> \o LStrip(bs[i].text))

\* merge_blocks: a group of one is the block itself; a larger group becomes
\* a block with the keys text, bbox and style_info only
merge_blocks(blocks) ==
    IF Len(blocks) = 1 THEN blocks[1]
    ELSE Block(MergedText(blocks, 2, blocks[1].text), HullOf(blocks),
               LargestBlock(blocks).style_info, "none", 0, 0)

\* sorted(blocks, key=lambda b: (-b['bbox'][1], b['bbox'][0])), a stable sort
SortsBefore(a, b) ==
    \/ a.bbox[2] > b.bbox[2]
    \/ (a.bbox[2] = b.bbox[2] /\ a.bbox[1] < b.bbox[1])

RECURSIVE InsertSorted(_, _)
InsertSorted(sorted, b) ==
    IF sorted = <<>> THEN <<b>>
    ELSE IF SortsBefore(b, sorted[Len(sorted)])
         THEN Append(InsertSorted(SubSeq(sorted, 1, Len(sorted) - 1), b), sorted[Len(sorted)])
         ELSE Append(sorted, b)

RECURSIVE SortBlocks(_)
SortBlocks(blocks) ==
    IF blocks = <<>> THEN <<>>
    ELSE InsertSorted(SortBlocks(SubSeq(blocks, 1, Len(blocks) - 1)), blocks[Len(blocks)])

y_tolerance == 3
x_tolerance == 60

\* lines 30-96: one round of the loop for a block, on the state of
\* current_group and merged_blocks.  Both if-chains run, the second on the
\* group the first one left.
group_step(st, block) ==
    LET prev_block == st.current_group[Len(st.current_group)]
        prev_bbox  == prev_block.bbox
        curr_bbox  == block.bbox
        y_gap      == Abs(prev_bbox[2] - curr_bbox[2])
        x_gap      == curr_bbox[1] - prev_bbox[3]
        prev_font  == prev_block.style_info.font_size
        curr_font  == block.style_info.font_size
        \* font_diff_ratio <= 0.2, the ratio being 1 when a size is missing
        similar_font == /\ prev_font # 0 /\ curr_font # 0
                        /\ 5 * Abs(prev_font - curr_font) <= Max2(prev_font, curr_font)
        same_style == /\ prev_block.style_info.is_bold = block.style_info.is_bold
                      /\ prev_block.style_info.is_italic = block.style_info.is_italic
        same_line    == y_gap <= y_tolerance
        close_enough == x_gap <= x_tolerance
        page_height  == prev_block.page_height
        page_width   == prev_block.page_width
        curr_text    == Strip(block.text)
        \* abs(curr_center_x - page_width/2) < page_width * 0.15
        is_centered  == /\ page_height # 0 /\ page_width # 0
                        /\ 10 * Abs(curr_bbox[1] + curr_bbox[3] - page_width) < 3 * page_width
        is_page_no     == /\ page_height # 0 /\ is_centered
                          /\ 100 * curr_bbox[2] > 85 * page_height
                          /\ Len(curr_text) <= 5 /\ IsDigitStr(curr_text)
        large_y_gap  == y_gap > 30
        joins        == same_line /\ close_enough /\ similar_font /\ same_style
        st1 == IF is_page_no \/ (is_centered /\ large_y_gap /\ curr_bbox[2] > prev_bbox[4])
               THEN [current_group |-> <<block>>,
                     merged_blocks |-> Append(st.merged_blocks, merge_blocks(st.current_group))]
               ELSE IF joins
               THEN [st EXCEPT !.current_group = Append(@, block)]
               ELSE [current_group |-> <<block>>,
                     merged_blocks |-> Append(st.merged_blocks, merge_blocks(st.current_group))]
    IN  IF joins
        THEN [st1 EXCEPT !.current_group = Append(@, block)]
        ELSE [current_group |-> <<block>>,
              merged_blocks |-> Append(st1.merged_blocks, merge_blocks(st1.current_group))]

RECURSIVE group_loop(_, _, _)
group_loop(st, sorted_blocks, i) ==
    IF i > Len(sorted_blocks) THEN st
    ELSE group_loop(group_step(st, sorted_blocks[i]), sorted_blocks, i + 1)

\* lines 25-96: merged_blocks when the loop ends; the group that is current
\* then is not merged into it
merged_blocks_of(blocks) ==
    LET sorted_blocks == SortBlocks(blocks)
    IN  group_loop([current_group |-> <<sorted_blocks[1]>>, merged_blocks |-> <<>>],
                   sorted_blocks, 2).merged_blocks

\* check_coords_within_boundary with the thresholds 0.08 and 0.12 of line 117
check_coords_within_boundary(coords, boundary) ==
    LET width  == boundary[3] - boundary[1]
        height == boundary[4] - boundary[2]
    IN  /\ 100 * coords[1] > 100 * boundary[1] - 8 * width
        /\ 100 * coords[3] < 100 * boundary[3] + 8 * width
        /\ 100 * coords[2] > 100 * boundary[2] - 12 * height
        /\ 100 * coords[4] < 100 * boundary[4] + 12 * height

\* lines 107-137: neighbouring list_item blocks near one another become one
RECURSIVE group_list_blocks(_, _, _, _)
group_list_blocks(blocks, i, tmp, grouped) ==
    IF i > Len(blocks) THEN grouped \o tmp
    ELSE LET block == blocks[i]
         IN  IF block.element_type = "list_item"
             THEN IF tmp = <<>> THEN group_list_blocks(blocks, i + 1, <<block>>, grouped)
                  ELSE IF check_coords_within_boundary(block.bbox, tmp[1].bbox)
                  THEN group_list_blocks(blocks, i + 1,
                          <<[tmp[1] EXCEPT !.text = @ \o <<" ">> \o block.text,
                                           !.bbox = Hull(@, block.bbox)]>>, grouped)
                  ELSE group_list_blocks(blocks, i + 1, <<block>>, grouped \o tmp)
             ELSE group_list_blocks(blocks, i + 1, <<>>, Append(grouped \o tmp, block))

\* lines 152-165: a list_item block that lies in a larger one is dropped
filter_contained(grouped) ==
    LET keep(i) ==
            \/ grouped[i].element_type # "list_item"
            \/ ~\E j \in 1..Len(grouped) :
                  /\ i # j /\ grouped[j].element_type = "list_item"
                  /\ 100 * InterArea(grouped[i].bbox, grouped[j].bbox)
                        > 92 * BoxArea(grouped[i].bbox)
                  /\ 10 * BoxArea(grouped[i].bbox) < 9 * BoxArea(grouped[j].bbox)
        RECURSIVE walk(_)
        walk(i) == IF i > Len(grouped) THEN <<>>
                   ELSE (IF keep(i) THEN <<grouped[i]>> ELSE <<>>) \o walk(i + 1)
    IN  walk(1)

\* lines 166-172: of blocks equal in type, bbox and text the first is kept
dedupe(filtered) ==
    LET same(a, b) == a.element_type = b.element_type /\ a.bbox = b.bbox /\ a.text = b.text
        RECURSIVE walk(_)
        walk(i) == IF i > Len(filtered) THEN <<>>
                   ELSE (IF \E j \in 1..(i - 1) : same(filtered[j], filtered[i])
                         THEN <<>> ELSE <<filtered[i]>>) \o walk(i + 1)
    IN  walk(1)

\* area(b) of line 173
ClippedArea(b) == Max2(0, b[3] - b[1]) * Max2(0, b[4] - b[2])

\* overlap_ratio: r1 > 0.8 or r2 > 0.8
overlaps(a, b) ==
    \/ 5 * InterArea(a, b) > 4 * ClippedArea(a)
    \/ 5 * InterArea(a, b) > 4 * ClippedArea(b)

\* lines 186-210: a block takes in every later block that overlaps it
RECURSIVE absorb(_, _, _, _, _)
absorb(deduped, i, j, out, merged) ==
    IF j > Len(deduped) THEN [out |-> out, merged |-> merged]
    ELSE IF i # j /\ j \notin merged /\ overlaps(deduped[i].bbox, deduped[j].bbox)
    THEN LET out_bbox == Hull(out.bbox, deduped[j].bbox)
             out_text == IF deduped[j].bbox[1] >= out_bbox[1]
                         THEN out.text \o <<" ">> \o deduped[j].text
                         ELSE deduped[j].text \o <<" ">> \o out.text
         IN  absorb(deduped, i, j + 1, [out EXCEPT !.bbox = out_bbox, !.text = out_text],
                    merged \cup {j})
    ELSE absorb(deduped, i, j + 1, out, merged)

RECURSIVE merge_overlapping(_, _, _)
merge_overlapping(deduped, i, merged) ==
    IF i > Len(deduped) THEN <<>>
    ELSE IF i \in merged THEN merge_overlapping(deduped, i + 1, merged)
    ELSE LET r == absorb(deduped, i, 1, deduped[i], merged)
         IN  <<r.out>> \o merge_overlapping(deduped, i + 1, r.merged \cup {i})

\* merge_text_blocks
merge_text_blocks(blocks) ==
    IF blocks = <<>> THEN <<>>
    ELSE merge_overlapping(
             dedupe(filter_contained(
                 group_list_blocks(merged_blocks_of(blocks), 1, <<>>, <<>>))),
             1, {})

-----------------------------------------------------------------------------
(* The merging of the fragments of one page.                               *)

PlainStyle == [font_size |-> 120, is_bold |-> FALSE, is_italic |-> FALSE]
BoldStyle  == [font_size |-> 120, is_bold |-> TRUE, is_italic |-> FALSE]
\* the style_info of _extract_text_blocks, which has no key font_size
ExtractedStyle == [font_size |-> 0, is_bold |-> FALSE, is_italic |-> FALSE]

\* fragments of a page of 600 by 800 points
Fragments == {
    Block(<<"a">>, <<50, 100, 150, 112>>, PlainStyle, "none", 600, 800),
    Block(<<"b">>, <<160, 100, 260, 112>>, PlainStyle, "none", 600, 800),
    Block(<<"c">>, <<200, 102, 300, 114>>, PlainStyle, "none", 600, 800),
    Block(<<"d">>, <<350, 99, 450, 111>>, PlainStyle, "none", 600, 800),
    Block(<<"e">>, <<50, 130, 150, 142>>, BoldStyle, "none", 600, 800),
    Block(<<"7">>, <<280, 750, 320, 762>>, PlainStyle, "none", 600, 800),
    Block(<<"f">>, <<50, 200, 150, 212>>, PlainStyle, "list_item", 600, 800),
    Block(<<"g">>, <<52, 201, 148, 211>>, PlainStyle, "list_item", 600, 800),
    Block(<<"h">>, <<55, 101, 145, 111>>, BoldStyle, "none", 600, 800),
    Block(<<"x">>, <<50, 300, 150, 312>>, ExtractedStyle, "none", 600, 800),
    Block(<<"y">>, <<160, 300, 260, 312>>, ExtractedStyle, "none", 600, 800) }

MaxFragments == 3

\* the lists of at most MaxFragments different fragments
FragmentLists ==
    UNION { { f \in [1..n -> Fragments] : \A i, j \in 1..n : i # j => f[i] # f[j] } :
            n \in 0..MaxFragments }

InitMerge ==
    /\ mblocks = <<>>
    /\ mout = <<>>
    /\ mout2 = <<>>
    /\ mpc = "start"
    /\ IdleClassify /\ IdleAnalyzer /\ IdleLists /\ IdleLater

\* the fragments of a page are extracted
TakeFragments ==
    /\ mpc = "start"
    /\ \E f \in FragmentLists : mblocks' = f
    /\ mpc' = "fragments"
    /\ UNCHANGED <<mout, mout2>>
    /\ UNCHANGED NotMerge

\* merge_text_blocks on the fragments
MergeTextBlocks ==
    /\ mpc = "fragments"
    /\ mout' = merge_text_blocks(mblocks)
    /\ mpc' = "merged"
    /\ UNCHANGED <<mblocks, mout2>>
    /\ UNCHANGED NotMerge

\* merge_text_blocks on the blocks it returned
MergeAgain ==
    /\ mpc = "merged"
    /\ mout2' = merge_text_blocks(mout)
    /\ mpc' = "remerged"
    /\ UNCHANGED <<mblocks, mout>>
    /\ UNCHANGED NotMerge

NextMerge == TakeFragments \/ MergeTextBlocks \/ MergeAgain

SpecMerge == InitMerge /\ [][NextMerge]_vars

\* the area covered by the boxes of a list of blocks
UnionArea(blocks) ==
    LET boxes == {blocks[i].bbox : i \in 1..Len(blocks)}
        xs == {b[1] : b \in boxes} \cup {b[3] : b \in boxes}
        ys == {b[2] : b \in boxes} \cup {b[4] : b \in boxes}
        next(v, S) == CHOOSE w \in S : w > v /\ \A u \in S : u > v => w <= u
        cells == {c \in xs \X ys :
                     \E b \in boxes : b[1] <= c[1] /\ c[1] < b[3] /\ b[2] <= c[2] /\ c[2] < b[4]}
        RECURSIVE sum(_)
        sum(C) == IF C = {} THEN 0
                  ELSE LET c == CHOOSE c \in C : TRUE
                       IN  (next(c[1], xs) - c[1]) * (next(c[2], ys) - c[2]) + sum(C \ {c})
    IN  sum(cells)

\* the texts and boxes of a list of blocks
TextsAndBoxes(blocks) == [i \in 1..Len(blocks) |-> <<blocks[i].text, blocks[i].bbox>>]

\* C2: the boxes merge_text_blocks returns cover the same area as the boxes
\* of the fragments it was given.
C2_UnionAreaKept ==
    mpc \in {"merged", "remerged"} => UnionArea(mout) = UnionArea(mblocks)

\* C3: merge_text_blocks returns, for the blocks it returned, the same texts
\* and boxes again.
C3_MergeIdempotent ==
    mpc = "remerged" => TextsAndBoxes(mout2) = TextsAndBoxes(mout)

\* the places <<block, position>> where the text of a fragment stands in
\* the texts of a list of blocks
Occurrences(fragment, blocks) ==
    UNION { { <<i, k>> : k \in { k \in 1..Len(blocks[i].text) :
                                   /\ k + Len(fragment.text) - 1 <= Len(blocks[i].text)
                                   /\ SubSeq(blocks[i].text, k, k + Len(fragment.text) - 1)
                                          = fragment.text } } :
            i \in 1..Len(blocks) }

\* the box outer covers the box inner
Covers(outer, inner) ==
    /\ outer[1] <= inner[1] /\ outer[2] <= inner[2]
    /\ outer[3] >= inner[3] /\ outer[4] >= inner[4]

\* C19: for a non-empty list of fragments of one page, the text of every
\* fragment stands exactly once in the blocks merge_text_blocks returns, in a
\* block whose box covers the box of the fragment: no fragment is lost or
\* duplicated, and a single fragment comes back as it is.
C19_EveryFragmentInOneBlock ==
    (mpc \in {"merged", "remerged"} /\ mblocks # <<>>) =>
        \A n \in 1..Len(mblocks) :
            /\ Cardinality(Occurrences(mblocks[n], mout)) = 1
            /\ \A o \in Occurrences(mblocks[n], mout) :
                  Covers(mout[o[1]].bbox, mblocks[n].bbox)

-----------------------------------------------------------------------------
(* analyzers/text_block_analyzer.py, TextBlockAnalyzer.  A font_info is a  *)
(* record of avg_font_size, dominant_font and is_bold, the keys that       *)
(* PDFLayoutAnalyzer.analyze_text_block writes and this class reads.  A    *)
(* position is the record of the region's x0 and y0 and of the page's      *)
(* width and height, from which the code takes relative_y = y0 / height    *)
(* and indent_ratio = x0 / width.                                          *)

TITLE_PATTERNS == <<
    ReCat(<<ReBol, ReAlt(<<ReStr(<<"c","h","a","p","t","e","r">>),
      ReStr(<<"s","e","c","t","i","o","n">>),
      ReStr(<<"a","p","p","e","n","d","i","x">>)>>), RePlus(ReS),
      RePlus(ReD)>>),
    ReCat(<<ReBol, ReAlt(<<ReStr(<<"t","a","b","l","e">>),
      ReStr(<<"f","i","g","u","r","e">>),
      ReStr(<<"a","p","p","e","n","d","i","x">>)>>), RePlus(ReS),
      RePlus(ReD), ReSet({"-", ".", ":"}), ReStar(ReS)>>),
    ReCat(<<ReBol,
      ReAlt(<<ReStr(<<"t","a","b","l","e"," ","o","f"," ","c","o","n","t","e","n","t","s">>),
      ReStr(<<"i","n","d","e","x">>),
      ReStr(<<"g","l","o","s","s","a","r","y">>),
      ReStr(<<"r","e","f","e","r","e","n","c","e","s">>),
      ReStr(<<"b","i","b","l","i","o","g","r","a","p","h","y">>)>>), ReEol>>),
    ReCat(<<ReBol, RePlus(ReD), ReCh("."), RePlus(ReD), RePlus(ReS),
      ReSet(UpperChars)>>) >>

LIST_MARKERS == <<
    ReCat(<<ReBol, ReStar(ReS), ReAlt(<<ReCat(<<RePlus(ReD), ReCh(".")>>),
      ReCat(<<ReCh("("), RePlus(ReD), ReCh(")")>>), ReCat(<<ReOpt(ReCh("[")),
      RePlus(ReD), ReCh("]")>>), ReCat(<<RePlus(ReW), ReCh(".")>>),
      ReCat(<<ReCh("("), RePlus(ReW), ReCh(")")>>), ReCat(<<ReOpt(ReCh("[")),
      RePlus(ReW), ReCh("]")>>)>>), RePlus(ReS)>>),
    ReCat(<<ReBol, ReStar(ReS), ReSet({"-"}), RePlus(ReS)>>),
    ReCat(<<ReBol, ReStar(ReS), ReSet(UpperChars), ReCh("."), RePlus(ReS)>>),
    ReCat(<<ReBol, ReStar(ReS), RePlus(ReSet({"I", "V", "X", "L", "C", "D",
      "M", "i", "v", "x", "l", "c", "d", "m"})), ReCh("."), RePlus(ReS)>>) >>

FOOTNOTE_PATTERNS == <<
    ReCat(<<ReBol, ReStar(ReS), RePlus(ReD), RePlus(ReS)>>),
    ReCat(<<ReBol, ReStar(ReS), ReSet({"*"}), RePlus(ReS)>>),
    ReCat(<<ReBol, ReStar(ReS), ReSet(LowerChars), ReCh(")"), RePlus(ReS)>>),
    ReCat(<<ReBol, ReStar(ReS), ReCh("["), RePlus(ReD), ReCh("]"),
      RePlus(ReS)>>) >>

leading_bullet_re ==
    ReCat(<<ReBol, ReSet({"-"}), ReStar(ReS)>>)

newline_re ==
    ReAlt(<<ReStr(<<"\\","n">>), ReCat(<<ReStar(ReS), ReCh("\n"),
      ReStar(ReS)>>)>>)

hyphenation_re ==
    ReCat(<<ReCh("-"), RePlus(ReS), ReAhead(ReSet(LowerChars))>>)

leader_dots_re ==
    ReCat(<<ReCh("."), ReStar(ReS), ReCh("."), ReStar(ReS),
      RePlus(ReCh(".")), ReStar(ReS), ReEol>>)

reference_re ==
    ReCat(<<ReCh("["), RePlus(ReD), ReCh("]"), ReStar(ReS)>>)

leading_number_re ==
    ReCat(<<ReBol, RePlus(ReD)>>)

HEADER_FOOTER_MARKERS == {
    <<"c","o","p","y","r","i","g","h","t">>,
    <<"c","o","n","f","i","d","e","n","t","i","a","l">>,
    <<"a","l","l"," ","r","i","g","h","t","s"," ","r","e","s","e","r","v","e","d">>,
    <<"d","r","a","f","t">>, <<"p","r","i","v","a","t","e">>,
    <<"i","n","t","e","r","n","a","l"," ","u","s","e">>, <<"p","a","g","e">> }

\* any(re.match(pattern, text) for pattern in patterns)
MatchesAny(patterns, text) == \E n \in 1..Len(patterns) : ReMatch(patterns[n], text)

MaxOf(S) == CHOOSE m \in S : \A n \in S : n <= m

\* re.sub(r, repl, t) for an r that matches no empty string and whose
\* quantifiers are all greedy: from left to right, each match, taken as far
\* as it reaches, is replaced by repl
RECURSIVE ReSubFrom(_, _, _, _)
ReSubFrom(r, repl, t, i) ==
    IF i > Len(t) THEN <<>>
    ELSE IF Ends(r, t, i) \ {i} # {}
         THEN repl \o ReSubFrom(r, repl, t, MaxOf(Ends(r, t, i) \ {i}))
         ELSE <<t[i]>> \o ReSubFrom(r, repl, t, i + 1)
ReSub(r, repl, t) == ReSubFrom(r, repl, t, 1)

\* TextBlockAnalyzer._clean_text
clean_text(text) ==
    Join(Split(
        ReSub(reference_re, <<>>,
            ReSub(leader_dots_re, <<>>,
                ReSub(hyphenation_re, <<>>,
                    ReSub(newline_re, <<" ">>,
                        ReSub(leading_bullet_re, <<>>, text)))))))

\* relative_y < n/100, relative_y > n/100, indent_ratio > n/100
RelYBelow(position, n) == 100 * position.y0 < n * position.height
RelYAbove(position, n) == 100 * position.y0 > n * position.height
IndentAbove(position, n) == 100 * position.x0 > n * position.width

BlockAnalysis ==
    [is_title |-> FALSE, is_list_item |-> FALSE, is_header_footer |-> FALSE,
     is_page_number |-> FALSE, is_footnote |-> FALSE, is_annotation |-> FALSE,
     confidence |-> 0, cross_page_refs |-> <<>>]

ToInt(b) == IF b THEN 1 ELSE 0

\* text.rstrip().endswith(('.', ':', ';', '?', '!'))
EndsSentence(text) ==
    RStrip(text) # <<>> /\ RStrip(text)[Len(RStrip(text))] \in {".", ":", ";", "?", "!"}

\* lines 178-196, with median the median_font_size of the analyzer's own
\* document_stats (0 when the key is absent)
title_score(text, font_info, position, median) ==
    2 * ToInt(10 * font_info.avg_font_size > 12 * median)
    + ToInt(RelYAbove(position, 80))
    + ToInt(Len(Split(text)) <= 10)
    + ToInt(~EndsSentence(text))
    + ToInt(font_info.is_bold)
    + 2 * ToInt(MatchesAny(TITLE_PATTERNS, Lower(text)))

\* lines 204-216; font_info has no key line_count, so the default 1 is read
list_score(text, position) ==
    2 * ToInt(MatchesAny(LIST_MARKERS, text))
    + ToInt(IndentAbove(position, 5))
    + ToInt(Len(text) < 200)
    + 1

\* lines 224-233
footnote_score(text, font_info, position, median) ==
    2 * ToInt(MatchesAny(FOOTNOTE_PATTERNS, text))
    + ToInt(RelYBelow(position, 20))
    + ToInt(font_info.avg_font_size < median)

\* lines 241-253
header_score(text, font_info, position, median) ==
    2 * ToInt(RelYBelow(position, 10) \/ RelYAbove(position, 90))
    + 2 * ToInt(\E marker \in HEADER_FOOTER_MARKERS : Contains(Lower(text), marker))
    + ToInt(font_info.avg_font_size < median)
    + ToInt(Len(text) < 100)

\* min(0.5 + (score * 0.1), 1.0)
score_confidence(score) == Min2(50 + 10 * score, 100)

stop_words == {<<"a">>, <<"a","n">>, <<"t","h","e">>, <<"i","n">>, <<"o","n">>,
               <<"a","t">>, <<"o","f">>, <<"t","o">>, <<"f","o","r">>, <<"b","y">>}

TokensOf(t) == {Split(t)[n] : n \in 1..Len(Split(t))} \ stop_words

\* lines 514-542, the definition of _text_similarity that is in force (it
\* replaces the one of line 413), compared with similarity_threshold 0.85
similar_texts(text1, text2) ==
    LET t1 == Lower(Strip(text1))
        t2 == Lower(Strip(text2))
    IN  IF t1 = t2 THEN TRUE
        ELSE IF 2 * Min2(Len(t1), Len(t2)) < Max2(Len(t1), Len(t2)) THEN FALSE
        ELSE IF TokensOf(t1) = {} \/ TokensOf(t2) = {} THEN FALSE
        ELSE 100 * Cardinality(TokensOf(t1) \cap TokensOf(t2))
                 > 85 * Cardinality(TokensOf(t1) \cup TokensOf(t2))

\* the entries of a list that satisfy a test, in order
RECURSIVE SelectPages(_, _, _)
SelectPages(blocks, text, current_page) ==
    IF blocks = <<>> THEN <<>>
    ELSE (IF Head(blocks).page # current_page /\ similar_texts(text, Head(blocks).text)
          THEN <<Head(blocks).page>> ELSE <<>>)
         \o SelectPages(Tail(blocks), text, current_page)

\* TextBlockAnalyzer._find_similar_blocks
find_similar_blocks(self, text, current_page) ==
    SelectPages(self.cross_page_elements.headers \o self.cross_page_elements.footers
                    \o self.cross_page_elements.footnotes,
                text, current_page)

\* TextBlockAnalyzer.analyze_block_structure, for the stripped text
analyze_stripped(self, text, font_info, position, page_num) ==
    IF /\ Len(text) <= 3 /\ IsDigitStr(text)
       /\ (RelYBelow(position, 10) \/ RelYAbove(position, 90))
    THEN [BlockAnalysis EXCEPT !.is_page_number = TRUE, !.confidence = 90]
    ELSE IF title_score(text, font_info, position, self.median_font_size) >= 3
    THEN [BlockAnalysis EXCEPT !.is_title = TRUE, !.confidence =
             score_confidence(title_score(text, font_info, position, self.median_font_size))]
    ELSE IF list_score(text, position) >= 3
    THEN [BlockAnalysis EXCEPT !.is_list_item = TRUE,
                               !.confidence = score_confidence(list_score(text, position))]
    ELSE IF footnote_score(text, font_info, position, self.median_font_size) >= 3
    THEN [BlockAnalysis EXCEPT !.is_footnote = TRUE, !.confidence =
             score_confidence(footnote_score(text, font_info, position, self.median_font_size))]
    ELSE IF header_score(text, font_info, position, self.median_font_size) >= 3
    THEN [BlockAnalysis EXCEPT !.is_header_footer = TRUE,
             !.confidence =
                 score_confidence(header_score(text, font_info, position, self.median_font_size)),
             !.cross_page_refs = find_similar_blocks(self, text, page_num)]
    ELSE BlockAnalysis

analyze_block_structure(self, text, font_info, position, page_num) ==
    analyze_stripped(self, Strip(text), font_info, position, page_num)

\* the value of text's leading digits, re.search(r'^\d+', text): -1 for none
DigitValue(c) == CHOOSE v \in 0..9 : ToString(v) = c
RECURSIVE LeadingDigits(_, _, _)
LeadingDigits(t, i, acc) ==
    IF i <= Len(t) /\ t[i] \in DigitChars
    THEN LeadingDigits(t, i + 1, 10 * acc + DigitValue(t[i])) ELSE acc
LeadingInt(t) == IF ReMatch(leading_number_re, t) THEN LeadingDigits(t, 1, 0) ELSE -1

\* TextBlockAnalyzer._should_merge_blocks, lines 86-111: after the checks of
\* distance and alignment
same_content(block1, block2) ==
    IF block1.style_info.dominant_font # block2.style_info.dominant_font THEN FALSE
    ELSE IF /\ block1.element_type # block2.element_type
            /\ ~(block1.element_type = "ListItem" /\ block2.element_type = "NarrativeText")
    THEN FALSE
    ELSE IF Strip(block2.text) # <<>> /\ Strip(block2.text)[1] \notin UpperChars THEN TRUE
    ELSE IF \/ \E c \in {"-", ",", ";", ":"} : EndsWith(Strip(block1.text), <<c>>)
            \/ ~EndsWith(Strip(block1.text), <<".">>)
    THEN TRUE
    ELSE /\ block1.element_type = "ListItem"
         /\ LeadingInt(block1.text) >= 0 /\ LeadingInt(block2.text) >= 0
         /\ LeadingInt(block2.text) = LeadingInt(block1.text) + 1

\* TextBlockAnalyzer._should_merge_blocks
TextBlockAnalyzer_should_merge_blocks(block1, block2) ==
    IF Abs(block1.bbox[4] - block2.bbox[2]) > 15 THEN FALSE
    ELSE IF block1.element_type = "ListItem"
    THEN block2.bbox[1] > block1.bbox[1] + 10 \/ same_content(block1, block2)
    ELSE IF Min2(block1.bbox[3], block2.bbox[3]) - Max2(block1.bbox[1], block2.bbox[1]) < 0
    THEN FALSE
    ELSE same_content(block1, block2)

\* lines 123-135: current after next_block is merged into it
merged_into(current, next_block) ==
    [current EXCEPT
        !.text = IF EndsWith(Strip(current.text), <<"-">>)
                 THEN SubSeq(Strip(current.text), 1, Len(Strip(current.text)) - 1)
                          \o Strip(next_block.text)
                 ELSE Strip(current.text) \o <<" ">> \o Strip(next_block.text),
        !.bbox = Hull(current.bbox, next_block.bbox)]

\* TextBlockAnalyzer._merge_blocks, lines 121-141: the loop and the last append
RECURSIVE merge_from(_, _, _)
merge_from(blocks, i, current) ==
    IF i > Len(blocks) THEN <<current>>
    ELSE IF TextBlockAnalyzer_should_merge_blocks(current, blocks[i])
         THEN merge_from(blocks, i + 1, merged_into(current, blocks[i]))
         ELSE <<current>> \o merge_from(blocks, i + 1, blocks[i])

TextBlockAnalyzer_merge_blocks(blocks) ==
    IF blocks = <<>> THEN blocks ELSE merge_from(blocks, 2, blocks[1])

\* TextBlockAnalyzer.__init__: document_stats is {} and nothing assigns to
\* it, so median_font_size is the default 0 of its readers
TextBlockAnalyzer ==
    [median_font_size |-> 0,
     cross_page_elements |-> [headers |-> <<>>, footers |-> <<>>, footnotes |-> <<>>]]

-----------------------------------------------------------------------------
(* analyzers/pdf_analyzer.py, PDFAnalyzer.  A page is a record of its      *)
(* width and height, of the regions PDFLayoutAnalyzer returns for it and   *)
(* of the style_stats (font_sizes, line_heights) it collects; a page has a *)
(* positive width and height.  element_types maps a type name to its       *)
(* count, 0 for a key the dictionary does not have.                        *)

ElementTypeNames == {"Title", "Header", "Footer", "ListItem", "PageNumber",
                     "Footnote", "Annotation", "NarrativeText"}

\* lines 25-32 and 47-54
empty_document_stats ==
    [font_sizes |-> <<>>, line_heights |-> <<>>, median_font_size |-> 0,
     median_line_height |-> 0, dominant_body_font |-> "None",
     element_types |-> [t \in ElementTypeNames |-> 0]]

\* PDFAnalyzer.__init__
PDFAnalyzer ==
    [text_analyzer |-> TextBlockAnalyzer, document_stats |-> empty_document_stats,
     analyzed_pages |-> <<>>]

\* PDFAnalyzer._determine_element_type; a BlockAnalysis has metadata None, so
\* analysis.metadata.get of line 155 raises AttributeError
determine_element_type(analysis) ==
    IF analysis.is_title /\ analysis.confidence > 70 THEN "Title"
    ELSE IF analysis.is_header_footer THEN "AttributeError"
    ELSE IF analysis.is_list_item THEN "ListItem"
    ELSE IF analysis.is_page_number THEN "PageNumber"
    ELSE IF analysis.is_footnote THEN "Footnote"
    ELSE IF analysis.is_annotation THEN "Annotation"
    ELSE "NarrativeText"

RECURSIVE Concat(_)
Concat(seqs) == IF seqs = <<>> THEN <<>> ELSE Head(seqs) \o Concat(Tail(seqs))

\* sorted(xs)[len(xs) // 2]
MiddleOf(xs) ==
    CHOOSE v \in {xs[i] : i \in 1..Len(xs)} :
        /\ Cardinality({i \in 1..Len(xs) : xs[i] < v}) <= Len(xs) \div 2
        /\ Len(xs) \div 2 < Cardinality({i \in 1..Len(xs) : xs[i] <= v})

\* lines 65-68: font_counts, a list of fonts and word counts in the order
\* in which the dictionary received its keys
add_count(counts, font, n) ==
    IF \E i \in 1..Len(counts) : counts[i].font = font
    THEN [i \in 1..Len(counts) |->
             IF counts[i].font = font
             THEN [font |-> font, count |-> counts[i].count + n] ELSE counts[i]]
    ELSE Append(counts, [font |-> font, count |-> n])

RECURSIVE font_counts(_, _, _)
font_counts(regions, i, counts) ==
    IF i > Len(regions) THEN counts
    ELSE font_counts(regions, i + 1,
             IF regions[i].font_info.dominant_font # ""
             THEN add_count(counts, regions[i].font_info.dominant_font,
                            Len(Split(regions[i].text)))
             ELSE counts)

\* line 85: max(font_counts.items(), key=...)[0], the first of the largest
dominant_font_of(counts) ==
    counts[CHOOSE i \in 1..Len(counts) :
              /\ \A j \in 1..Len(counts) : counts[j].count <= counts[i].count
              /\ \A j \in 1..(i - 1) : counts[j].count < counts[i].count].font

\* lines 42-85: the document statistics after the first pass
collected_stats(all_font_sizes, all_line_heights, counts) ==
    [font_sizes |-> all_font_sizes,
     line_heights |-> all_line_heights,
     median_font_size |-> IF all_font_sizes # <<>> THEN MiddleOf(all_font_sizes) ELSE 0,
     median_line_height |-> IF all_line_heights # <<>> THEN MiddleOf(all_line_heights) ELSE 0,
     dominant_body_font |-> IF counts # <<>> THEN dominant_font_of(counts) ELSE "None",
     element_types |-> [t \in ElementTypeNames |-> 0]]

\* lines 70-73: analyzed_pages after the first pass; the page numbers of the
\* document are assigned, every other key stays
recorded_pages(analyzed_pages, pages) ==
    [p \in 1..Max2(Len(analyzed_pages), Len(pages)) |->
        IF p <= Len(pages)
        THEN [regions |-> pages[p].regions, stats |-> pages[p].stats]
        ELSE analyzed_pages[p]]

\* lines 38-85
first_pass(self, pages) ==
    [self EXCEPT
        !.document_stats =
            collected_stats(
                Concat([p \in 1..Len(pages) |-> pages[p].stats.font_sizes]),
                Concat([p \in 1..Len(pages) |-> pages[p].stats.line_heights]),
                font_counts(Concat([p \in 1..Len(pages) |-> pages[p].regions]), 1, <<>>)),
        !.analyzed_pages = recorded_pages(self.analyzed_pages, pages)]

\* lines 95-99
position_of(region, page) ==
    [x0 |-> region.bbox[1], y0 |-> region.bbox[2],
     width |-> page.width, height |-> page.height]

\* lines 112-124
element_dict(region, clean, analysis, page_num) ==
    [text |-> clean, bbox |-> region.bbox,
     element_type |-> determine_element_type(analysis),
     confidence |-> analysis.confidence, page_number |-> page_num,
     analysis_details |-> analysis, style_info |-> region.font_info,
     cross_page_refs |-> analysis.cross_page_refs]

\* lines 127-140: the statistics of the element types
count_element(element_types, page_elements, element) ==
    IF /\ element.element_type = "ListItem" /\ page_elements # <<>>
       /\ page_elements[Len(page_elements)].element_type = "NarrativeText"
       /\ page_elements[Len(page_elements)].bbox[1] > element.bbox[1]
    THEN [element_types EXCEPT !["ListItem"] = @ + 2, !["NarrativeText"] = @ - 1]
    ELSE [element_types EXCEPT ![element.element_type] = @ + 1]

\* lines 101-142: the region's element joins the elements of the page
add_analysed(region, clean, analysis, page_num, acc) ==
    IF determine_element_type(analysis) = "AttributeError"
    THEN [acc EXCEPT !.raised = "AttributeError"]
    ELSE [acc EXCEPT
             !.page_elements = Append(@, element_dict(region, clean, analysis, page_num)),
             !.element_types = count_element(@, acc.page_elements,
                                   element_dict(region, clean, analysis, page_num))]

\* lines 90-142: one region of a page of analyzed_pages; pages[page_num-1]
\* raises IndexError for a page number the document does not have
add_region(text_analyzer, pages, page_num, region, acc) ==
    IF page_num > Len(pages) THEN [acc EXCEPT !.raised = "IndexError"]
    ELSE add_analysed(region, clean_text(region.text),
             analyze_block_structure(text_analyzer, clean_text(region.text),
                 region.font_info, position_of(region, pages[page_num]), page_num),
             page_num, acc)

RECURSIVE regions_loop(_, _, _, _, _, _)
regions_loop(text_analyzer, pages, page_num, regions, i, acc) ==
    IF i > Len(regions) \/ acc.raised # "none" THEN acc
    ELSE regions_loop(text_analyzer, pages, page_num, regions, i + 1,
             add_region(text_analyzer, pages, page_num, regions[i], acc))

\* lines 144-146
after_page(elements, page) ==
    [elements |-> IF page.raised = "none"
                  THEN elements \o TextBlockAnalyzer_merge_blocks(page.page_elements)
                  ELSE elements,
     element_types |-> page.element_types, raised |-> page.raised]

\* lines 88-146: the second pass, over analyzed_pages
RECURSIVE second_pass(_, _, _, _)
second_pass(self, pages, page_num, acc) ==
    IF page_num > Len(self.analyzed_pages) \/ acc.raised # "none" THEN acc
    ELSE second_pass(self, pages, page_num + 1,
             after_page(acc.elements,
                 regions_loop(self.text_analyzer, pages, page_num,
                     self.analyzed_pages[page_num].regions, 1,
                     [page_elements |-> <<>>, element_types |-> acc.element_types,
                      raised |-> "none"])))

\* the analyzer after the call, and what the call returned or raised
outcome(self, acc) ==
    [self |-> [self EXCEPT !.document_stats.element_types = acc.element_types],
     returned |-> IF acc.raised = "none" THEN acc.elements ELSE <<>>,
     raised |-> acc.raised]

second_pass_of(self, pages) ==
    outcome(self, second_pass(self, pages, 1,
        [elements |-> <<>>, element_types |-> self.document_stats.element_types,
         raised |-> "none"]))

\* PDFAnalyzer.analyze_document
analyze_document(self, pages) == second_pass_of(first_pass(self, pages), pages)

RECURSIVE SumOver(_, _)
SumOver(f, S) ==
    IF S = {} THEN 0 ELSE LET x == CHOOSE x \in S : TRUE IN f[x] + SumOver(f, S \ {x})

\* PDFAnalyzer.get_document_statistics
get_document_statistics(self) ==
    [element_counts |-> self.document_stats.element_types,
     median_font_size |-> self.document_stats.median_font_size,
     median_line_height |-> self.document_stats.median_line_height,
     total_elements |-> SumOver(self.document_stats.element_types, ElementTypeNames),
     pages_analyzed |-> Len(self.analyzed_pages)]

-----------------------------------------------------------------------------
(* One PDFAnalyzer object that analyses one document after another.        *)

Font(avg_font_size, dominant_font, is_bold) ==
    [avg_font_size |-> avg_font_size, dominant_font |-> dominant_font, is_bold |-> is_bold]

Region(text, bbox, font_info) == [text |-> text, bbox |-> bbox, font_info |-> font_info]

\* regions of a page of 600 by 800 points; PDFLayoutAnalyzer joins the lines
\* of a block with a backslash and an n
TitleRegion ==
    Region(<<"I","n","t","r","o","\\","n","M","o","r","e">>, <<50, 700, 300, 720>>,
           Font(160, "Helvetica-Bold", TRUE))
LongRegion ==
    Region(<<"a"," ","b"," ","c"," ","d"," ","e"," ","f"," ","g"," ","h"," ","i"," ","j"," ","k",".">>,
           <<20, 400, 500, 412>>, Font(120, "Helvetica", FALSE))
ListRegion ==
    Region(<<"1","."," ","a"," ","b"," ","c"," ","d"," ","e"," ","f"," ","g"," ","h"," ","i"," ","j"," ","k",".">>,
           <<10, 380, 500, 392>>, Font(120, "Helvetica", FALSE))
ContinuationRegion ==
    Region(<<"l"," ","m"," ","n"," ","o"," ","p"," ","q"," ","r"," ","s"," ","t"," ","u"," ","v",".">>,
           <<30, 385, 500, 397>>, Font(120, "Helvetica", FALSE))
PageNumberRegion ==
    Region(<<"7">>, <<290, 40, 310, 52>>, Font(100, "Helvetica", FALSE))
FooterRegion ==
    Region(<<"x"," ","y"," ","z"," ","a"," ","b"," ","c"," ","d"," ","e"," ","f"," ","g"," ","h",".">>,
           <<20, 40, 500, 52>>, Font(100, "Times", FALSE))
ReferenceRegion ==
    Region(<<"[","3","]"," ","r","e","-"," ","s","u","l","t"," ","a"," ","b"," ","c"," ","d"," ","e"," ","f"," ","g"," ","h"," ","i",".">>,
           <<20, 300, 500, 312>>, Font(120, "Times", FALSE))

Page(regions, line_heights) ==
    [width |-> 600, height |-> 800, regions |-> regions,
     stats |-> [font_sizes |-> [i \in 1..Len(regions) |-> regions[i].font_info.avg_font_size],
                line_heights |-> line_heights]]

SamplePages == {
    Page(<<TitleRegion, LongRegion>>, <<14>>),
    Page(<<LongRegion, ListRegion, ContinuationRegion>>, <<14, 12>>),
    Page(<<PageNumberRegion>>, <<>>),
    Page(<<>>, <<>>),
    Page(<<FooterRegion>>, <<>>),
    Page(<<ReferenceRegion>>, <<>>) }

MaxPages == 2

\* the documents of one to MaxPages pages
Documents == UNION { [1..n -> SamplePages] : n \in 1..MaxPages }

InitAnalyzer ==
    /\ analyzer = PDFAnalyzer
    /\ adoc = <<>>
    /\ aresult = <<>>
    /\ astats = <<>>
    /\ apc = "constructed"
    /\ IdleClassify /\ IdleMerge /\ IdleLists /\ IdleLater

\* analyzer.analyze_document(pdf_path), for the pages of the file; aresult is
\* the outcome of the call: the object after it, what it returned and what it
\* raised.  astats holds the statistics read after the latest analysis.
AnalyzeDocument ==
    /\ apc \in {"constructed", "analysed", "reported"}
    /\ \E pages \in Documents :
          /\ adoc' = pages
          /\ aresult' = analyze_document(analyzer, pages)
    /\ analyzer' = aresult'.self
    /\ astats' = <<>>
    /\ apc' = "analysed"
    /\ UNCHANGED NotAnalyzer

\* analyzer.get_document_statistics()
GetDocumentStatistics ==
    /\ apc = "analysed"
    /\ astats' = get_document_statistics(analyzer)
    /\ apc' = "reported"
    /\ UNCHANGED <<analyzer, adoc, aresult>>
    /\ UNCHANGED NotAnalyzer

NextAnalyzer == AnalyzeDocument \/ GetDocumentStatistics

SpecAnalyzer == InitAnalyzer /\ [][NextAnalyzer]_vars

\* what a PDFAnalyzer that has analysed nothing before returns or raises for
\* the document analysed last, and its statistics after that
FreshResult == analyze_document(PDFAnalyzer, adoc)
FreshStatistics == get_document_statistics(FreshResult.self)

\* C4: an analyzer object that has analysed other documents before gives,
\* for a document, the result and the statistics that a new analyzer object
\* gives for it.
C4_RunsAreIsolated ==
    /\ apc \in {"analysed", "reported"} =>
          /\ aresult.returned = FreshResult.returned
          /\ aresult.raised = FreshResult.raised
    /\ apc = "reported" => astats = FreshStatistics

-----------------------------------------------------------------------------
(* The list operations: the pipeline's grouper of list_handler.py, the     *)
(* ListAnalyzer of the fast parser, ElementClassifier.group_list_items and *)
(* the merging of wrapped lines.  A uuid4 value is modelled by its number  *)
(* in the order of drawing, so that two draws never give the same value;   *)
(* 0 stands for None.                                                      *)

\* processor/patterns.py LIST_PATTERNS; the bullets outside Alphabet are left out
LIST_PATTERNS == <<
    ReCat(<<ReBol, ReStar(ReS), ReSet({"*", "-"}), RePlus(ReS)>>),
    ReCat(<<ReBol, ReStar(ReS), RePlus(ReD), ReSet({".", ":", ")"}),
      RePlus(ReS)>>),
    ReCat(<<ReBol, ReStar(ReS), ReCh("("), RePlus(ReD), ReCh(")"),
      RePlus(ReS)>>),
    ReCat(<<ReBol, ReStar(ReS), ReCh("["), RePlus(ReD), ReCh("]"),
      RePlus(ReS)>>),
    ReCat(<<ReBol, ReStar(ReS), ReSet(LowerChars \cup UpperChars),
      ReSet({".", ":", ")"}), RePlus(ReS)>>),
    ReCat(<<ReBol, ReStar(ReS), ReCh("("), ReSet(LowerChars \cup UpperChars),
      ReCh(")"), RePlus(ReS)>>),
    ReCat(<<ReBol, ReStar(ReS), ReCh("["), ReSet(LowerChars \cup UpperChars),
      ReCh("]"), RePlus(ReS)>>),
    ReCat(<<ReBol, ReStar(ReS), RePlus(ReSet({"i", "v", "x", "I", "V",
      "X"})), ReSet({".", ":", ")"}), RePlus(ReS)>>),
    ReCat(<<ReBol, ReStar(ReS), ReCh("("), RePlus(ReSet({"i", "v", "x", "I",
      "V", "X"})), ReCh(")"), RePlus(ReS)>>),
    ReCat(<<ReBol, ReStar(ReS), ReCh("["), RePlus(ReSet({"i", "v", "x", "I",
      "V", "X"})), ReCh("]"), RePlus(ReS)>>) >>

\* patterns.is_list_item_start: a search with a pattern compiled with
\* re.IGNORECASE
is_list_item_start(text) ==
    \E n \in 1..Len(LIST_PATTERNS) : ReSearch(ReIC(LIST_PATTERNS[n]), text)

\* a relation that holds between no two list items
unrelated_list_items(item1, item2, max_gap, max_indent_diff) == FALSE

\* list_handler._are_list_items_related; an absent font_name is "" and an
\* absent font_size is 0
are_list_items_related(item1, item2, max_gap, max_indent_diff) ==
    /\ Abs(item1.bbox[4] - item2.bbox[2]) <= max_gap
    /\ Abs(item1.bbox[1] - item2.bbox[1]) <= max_indent_diff
    /\ ~ /\ item1.style_info.font_name # ""
         /\ item2.style_info.font_name # ""
         /\ item1.style_info.font_name # item2.style_info.font_name
    /\ ~ /\ item1.style_info.font_size # 0
         /\ item2.style_info.font_size # 0
         /\ Abs(item1.style_info.font_size - item2.style_info.font_size) > 1

\* group_consecutive_list_items with group_lists False, lines 52-57: a new
\* uuid4 for each list item
RECURSIVE ungrouped_from(_, _, _)
ungrouped_from(elements, i, uuid) ==
    IF i > Len(elements) THEN [elements |-> elements, uuid |-> uuid]
    ELSE IF elements[i].element_type = "LIST_ITEM"
         THEN ungrouped_from([elements EXCEPT ![i].list_group_id = uuid + 1], i + 1, uuid + 1)
         ELSE ungrouped_from(elements, i + 1, uuid)

\* the loop of group_consecutive_list_items, lines 59-82; prev is the index
\* of prev_list_item, 0 for None
RECURSIVE grouped_from(_, _, _, _, _, _, _)
grouped_from(elements, i, current_group_id, prev, uuid, max_gap, max_indent_diff) ==
    IF i > Len(elements) THEN [elements |-> elements, uuid |-> uuid]
    ELSE IF elements[i].element_type # "LIST_ITEM"
         THEN grouped_from(elements, i + 1, current_group_id, 0, uuid,
                           max_gap, max_indent_diff)
    ELSE IF prev # 0 /\ are_list_items_related(elements[prev], elements[i],
                                               max_gap, max_indent_diff)
         THEN grouped_from([elements EXCEPT ![i].list_group_id = current_group_id],
                           i + 1, current_group_id, i, uuid, max_gap, max_indent_diff)
    ELSE grouped_from([elements EXCEPT ![i].list_group_id = uuid + 1],
                      i + 1, uuid + 1, i, uuid + 1, max_gap, max_indent_diff)

\* a grouping that does not read group_lists
grouped_whatever_the_flag(elements, group_lists, max_gap, max_indent_diff, uuid) ==
    grouped_from(elements, 1, 0, 0, uuid, max_gap, max_indent_diff)

\* list_handler.group_consecutive_list_items; uuid is the number of uuid4
\* values drawn before the call
group_consecutive_list_items(elements, group_lists, max_gap, max_indent_diff, uuid) ==
    IF ~group_lists THEN ungrouped_from(elements, 1, uuid)
    ELSE grouped_from(elements, 1, 0, 0, uuid, max_gap, max_indent_diff)

\* text.split('\n')[0]
FirstLine(text) ==
    IF HasChar(text, "\n")
    THEN SubSeq(text, 1, (CHOOSE i \in 1..Len(text) :
                            text[i] = "\n" /\ \A k \in 1..(i - 1) : text[k] # "\n") - 1)
    ELSE text

\* list_handler.handle_wrapped_list_item_lines: the merged block, or NoBlock
\* for None; an absent font_name is ""
handle_wrapped_list_item_lines(block1, block2) ==
    IF \/ ~is_list_item_start(block1.text)
       \/ is_list_item_start(block2.text)
       \/ Abs(block1.bbox[4] - block2.bbox[2]) > 5
       \/ /\ is_list_item_start(FirstLine(block1.text))
          /\ Abs(block2.bbox[1] - (block1.bbox[1] + 20)) > 5
       \/ block1.style_info.font_name # block2.style_info.font_name
    THEN NoBlock
    ELSE [block1 EXCEPT !.text = block1.text \o <<"\n">> \o block2.text,
                        !.bbox = <<Min2(block1.bbox[1], block2.bbox[1]),
                                   Min2(block1.bbox[2], block2.bbox[2]),
                                   Max2(block1.bbox[3], block2.bbox[3]),
                                   Max2(block1.bbox[4], block2.bbox[4])>>]

\* ListAnalyzer's patterns; the bullets outside Alphabet are left out
BULLET_PATTERN ==
    ReCat(<<ReBol, ReSet({"*", "-"})>>)
NUMBER_PATTERN ==
    ReCat(<<ReBol, RePlus(ReD), ReSet({".", ")"})>>)
LETTER_PATTERN ==
    ReCat(<<ReBol, ReSet(LowerChars), ReSet({".", ")"})>>)
ROMAN_PATTERN ==
    ReCat(<<ReBol, RePlus(ReAlt(<<ReCh("i"), ReStr(<<"i","i">>),
      ReStr(<<"i","i","i">>), ReStr(<<"i","v">>), ReCh("v"),
      ReStr(<<"v","i">>), ReStr(<<"v","i","i">>), ReStr(<<"v","i","i","i">>),
      ReStr(<<"i","x">>), ReCh("x")>>)), ReSet({".", ")"})>>)

LowerLetters == <<"a","b","c","d","e","f","g","h","i","j","k","l","m",
                  "n","o","p","q","r","s","t","u","v","w","x","y","z">>
\* ord(c) - ord('a') + 1
LetterNumber(c) == CHOOSE n \in 1..26 : LowerLetters[n] = c

\* the tests of get_list_pattern_type on the stripped, lowered text; the
\* pattern type "None" stands for the result None and the number -1 for None
pattern_type_of(text) ==
    IF ReMatch(BULLET_PATTERN, text) THEN [pattern_type |-> "bullet", number |-> -1]
    ELSE IF ReMatch(NUMBER_PATTERN, text)
         THEN [pattern_type |-> "number", number |-> LeadingDigits(text, 1, 0)]
    ELSE IF ReMatch(LETTER_PATTERN, text)
         THEN [pattern_type |-> "letter", number |-> LetterNumber(text[1])]
    ELSE IF ReMatch(ROMAN_PATTERN, text) THEN [pattern_type |-> "roman", number |-> -1]
    ELSE [pattern_type |-> "None", number |-> -1]

\* ListAnalyzer.get_list_pattern_type
get_list_pattern_type(text) == pattern_type_of(Lower(Strip(text)))

\* ListContext; no context (None) has the list_id 0
ListContext(list_id, pattern_type, indent_level, last_number) ==
    [list_id |-> list_id, pattern_type |-> pattern_type,
     indent_level |-> indent_level, last_number |-> last_number]
NoContext == ListContext(0, "None", 0, -1)

\* ListAnalyzer.should_continue_list, after pattern_info is computed
continues_list(current_context, pattern_info, bbox, vertical_gap, max_gap, indent_tolerance) ==
    /\ vertical_gap <= max_gap
    /\ pattern_info.pattern_type # "None"
    /\ Abs(bbox[1] - current_context.indent_level) <= indent_tolerance
    /\ ~ /\ pattern_info.pattern_type = "number"
         /\ current_context.pattern_type = "number"
         /\ current_context.last_number # -1
         /\ pattern_info.number # current_context.last_number + 1
    /\ pattern_info.pattern_type = current_context.pattern_type

\* ListAnalyzer.should_continue_list
should_continue_list(current_context, text, bbox, vertical_gap, max_gap, indent_tolerance) ==
    continues_list(current_context, get_list_pattern_type(text), bbox,
                   vertical_gap, max_gap, indent_tolerance)

\* analyze_list_items, lines 91-105: the list item elem with its pattern;
\* the new value of current_list
list_of_item(current_list, elem, pattern_info, vertical_gap, uuid) ==
    IF \/ current_list.list_id = 0
       \/ ~should_continue_list(current_list, elem.text, elem.bbox, vertical_gap, 20, 5)
    THEN ListContext(uuid + 1, pattern_info.pattern_type, elem.bbox[1], pattern_info.number)
    ELSE [current_list EXCEPT !.last_number = pattern_info.number]

\* element.metadata["list_id"] and ["list_index"], lines 103-104
listed(elem, current_list, number) ==
    [elem EXCEPT !.list_id = current_list.list_id,
                 !.list_index = IF number = -1 THEN 0 ELSE number]

\* the loop of ListAnalyzer.analyze_list_items; last_y is -1 for None
RECURSIVE analyzed_from(_, _, _, _, _)
\* a list that was started for the item took the next uuid4 as its list_id
analyzed_item(elements, i, current_list, pattern_info, uuid) ==
    analyzed_from([elements EXCEPT ![i] = listed(elements[i], current_list, pattern_info.number)],
                  i + 1, current_list, elements[i].bbox[4],
                  Max2(uuid, current_list.list_id))
analyzed_from(elements, i, current_list, last_y, uuid) ==
    IF i > Len(elements) THEN [elements |-> elements, uuid |-> uuid]
    ELSE IF elements[i].element_type # "ListItem"
         THEN analyzed_from(elements, i + 1, NoContext, last_y, uuid)
    ELSE IF get_list_pattern_type(elements[i].text).pattern_type = "None"
         THEN analyzed_from(elements, i + 1, current_list, elements[i].bbox[4], uuid)
    ELSE analyzed_item(elements, i,
                       list_of_item(current_list, elements[i],
                                    get_list_pattern_type(elements[i].text),
                                    IF last_y = -1 THEN 0
                                    ELSE Abs(elements[i].bbox[2] - last_y), uuid),
                       get_list_pattern_type(elements[i].text), uuid)

\* ListAnalyzer.analyze_list_items
analyze_list_items(elements, uuid) == analyzed_from(elements, 1, NoContext, -1, uuid)

\* is_continuation of ElementClassifier.group_list_items: the gap may be at
\* most 1.5 times the line height, 1.2 times avg_font_size (in tenths)
is_continuation(prev, curr, avg_font_size) ==
    /\ Abs(curr.metrics.bbox[1] - prev.metrics.bbox[1]) <= 5
    /\ 50 * (prev.metrics.bbox[2] - curr.metrics.bbox[4]) <= 9 * avg_font_size
    /\ prev.metrics.font_info.dominant_font = curr.metrics.font_info.dominant_font
    /\ Abs(prev.metrics.font_info.avg_font_size - curr.metrics.font_info.avg_font_size) <= 5

\* group_list_items, lines 260-268: elem is merged into the list item prev_elem
merged_continuation(prev_elem, elem) ==
    [prev_elem EXCEPT
        !.text = prev_elem.text \o <<"\n">> \o elem.text,
        !.metrics.bbox = <<prev_elem.metrics.bbox[1],
                           Max2(prev_elem.metrics.bbox[2], elem.metrics.bbox[2]),
                           prev_elem.metrics.bbox[3],
                           Min2(prev_elem.metrics.bbox[4], elem.metrics.bbox[4])>>]

\* the loop of ElementClassifier.group_list_items; current_group is <<>> for
\* None, list_level is -1 where metadata has no such key
RECURSIVE list_groups_from(_, _, _, _, _, _)
list_groups_from(elements, i, grouped, current_group, current_indent, avg_font_size) ==
    IF i > Len(elements) THEN grouped \o current_group
    ELSE IF elements[i].element_type # "ListItem"
         THEN IF current_group # <<>>
                 /\ is_continuation(current_group[Len(current_group)], elements[i], avg_font_size)
              THEN list_groups_from(elements, i + 1, grouped,
                       [current_group EXCEPT ![Len(current_group)] =
                            merged_continuation(current_group[Len(current_group)], elements[i])],
                       current_indent, avg_font_size)
              ELSE list_groups_from(elements, i + 1,
                       Append(grouped \o current_group, elements[i]), <<>>,
                       current_indent, avg_font_size)
    ELSE IF current_group = <<>>
         THEN list_groups_from(elements, i + 1, grouped, <<elements[i]>>,
                               elements[i].metrics.bbox[1], avg_font_size)
    ELSE IF is_continuation(current_group[Len(current_group)], elements[i], avg_font_size)
         THEN list_groups_from(elements, i + 1, grouped, Append(current_group, elements[i]),
                               current_indent, avg_font_size)
    ELSE IF /\ 10 <= elements[i].metrics.bbox[1] - current_indent
            /\ elements[i].metrics.bbox[1] - current_indent <= 50
         THEN list_groups_from(elements, i + 1, grouped,
                  Append(current_group, [elements[i] EXCEPT !.list_level = Len(current_group)]),
                  current_indent, avg_font_size)
    ELSE list_groups_from(elements, i + 1, grouped \o current_group, <<elements[i]>>,
                          elements[i].metrics.bbox[1], avg_font_size)

\* ElementClassifier.group_list_items
group_list_items(elements, page_context) ==
    list_groups_from(elements, 1, <<>>, <<>>, 0, page_context.avg_font_size)

\* the dict that list_grouper reads: its element_type is the string
\* 'list_item' for an item of a list
grouper_dict(s) ==
    [text |-> s.text, element_type |-> IF s.is_list THEN "list_item" ELSE "text",
     bbox |-> s.bbox]

\* '\n'.join of the texts of the items
RECURSIVE joined_lines(_, _)
joined_lines(items, n) ==
    IF n = 1 THEN items[1].text
    ELSE joined_lines(items, n - 1) \o <<"\n">> \o items[n].text

\* a faulty variant of create_list_group: the group is given the box of its
\* first item
create_list_group_at_first(items) ==
    [text |-> joined_lines(items, Len(items)), element_type |-> "list",
     bbox |-> items[1].bbox, items |-> items,
     metadata |-> [is_group |-> TRUE, item_count |-> Len(items)]]

\* list_grouper.create_list_group, lines 64-87, for one item or more
create_list_group(items) ==
    [text |-> joined_lines(items, Len(items)), element_type |-> "list",
     bbox |-> <<0 - MaxOf({0 - items[n].bbox[1] : n \in 1..Len(items)}),
                0 - MaxOf({0 - items[n].bbox[2] : n \in 1..Len(items)}),
                MaxOf({items[n].bbox[3] : n \in 1..Len(items)}),
                MaxOf({items[n].bbox[4] : n \in 1..Len(items)})>>,
     items |-> items,
     metadata |-> [is_group |-> TRUE, item_count |-> Len(items)]]

\* lines 48-49, 53-54 and 59-60: the current group, if there is one, goes to
\* the result as a list group
with_list_group(result, current_group) ==
    IF current_group # <<>> THEN Append(result, create_list_group(current_group))
    ELSE result

\* the loop of list_grouper.group_consecutive_list_items, lines 26-60, over
\* dicts that have a bbox of four coordinates
RECURSIVE list_grouper_loop(_, _, _, _, _)
list_grouper_loop(elements, i, result, current_group, max_gap) ==
    IF i > Len(elements) THEN with_list_group(result, current_group)
    ELSE IF elements[i].element_type = "list_item"
         THEN IF current_group = <<>>
              THEN list_grouper_loop(elements, i + 1, result, <<elements[i]>>, max_gap)
              ELSE IF /\ 0 < current_group[Len(current_group)].bbox[2] - elements[i].bbox[4]
                      /\ current_group[Len(current_group)].bbox[2] - elements[i].bbox[4]
                             <= max_gap
                   THEN list_grouper_loop(elements, i + 1, result,
                                          Append(current_group, elements[i]), max_gap)
                   ELSE list_grouper_loop(elements, i + 1,
                                          with_list_group(result, current_group),
                                          <<elements[i]>>, max_gap)
         ELSE list_grouper_loop(elements, i + 1,
                  Append(with_list_group(result, current_group), elements[i]),
                  <<>>, max_gap)

\* list_grouper.group_consecutive_list_items(elements, max_gap), which
\* process_pdf imports as group_list_items
list_grouper_group_consecutive_list_items(elements, max_gap) ==
    IF elements = <<>> THEN <<>>
    ELSE list_grouper_loop(elements, 1, <<>>, <<>>, max_gap)

-----------------------------------------------------------------------------
(* One page of classified elements and one list operation on it.           *)

\* an element of the page as the classifier leaves it
Item(text, is_list, bbox, font_name, font_size) ==
    [text |-> text, is_list |-> is_list, bbox |-> bbox,
     font_name |-> font_name, font_size |-> font_size]

\* the Element of data_models.py that the pipeline hands to list_handler
handler_element(s) ==
    [text |-> s.text, element_type |-> IF s.is_list THEN "LIST_ITEM" ELSE "TEXT",
     bbox |-> s.bbox,
     style_info |-> [font_name |-> s.font_name, font_size |-> s.font_size],
     list_group_id |-> 0]

\* the Element that FastPDFParser hands to ListAnalyzer.analyze_list_items;
\* list_index is -1 where metadata has no such key
parsed_element(s) ==
    [text |-> s.text, element_type |-> IF s.is_list THEN "ListItem" ELSE "NarrativeText",
     bbox |-> s.bbox, list_id |-> 0, list_index |-> -1]

\* the dict that ElementClassifier.group_list_items reads
metrics_element(s) ==
    [text |-> s.text, element_type |-> IF s.is_list THEN "ListItem" ELSE "NarrativeText",
     metrics |-> [bbox |-> s.bbox,
                  font_info |-> [dominant_font |-> s.font_name, avg_font_size |-> s.font_size]],
     list_level |-> -1]

\* the block dict of spatial_grouper and handle_wrapped_list_item_lines
block_of(s) ==
    Block(s.text, s.bbox, [font_name |-> s.font_name, font_size |-> s.font_size],
          "none", 0, 0)

\* PageContext.avg_font_size of the page
PageContext == [avg_font_size |-> 120]

SampleItems == {
    Item(<<"1","."," ","a">>, TRUE, <<50, 100, 300, 112>>, "Helvetica", 120),
    Item(<<"2","."," ","b">>, TRUE, <<52, 117, 300, 129>>, "Helvetica", 120),
    Item(<<"-"," ","c">>, TRUE, <<50, 134, 300, 146>>, "Helvetica", 120),
    Item(<<"p"," ","q">>, FALSE, <<70, 117, 300, 129>>, "Helvetica", 120),
    Item(<<"r"," ","s">>, FALSE, <<52, 86, 300, 98>>, "Helvetica", 120),
    Item(<<"3","."," ","d">>, TRUE, <<50, 200, 300, 212>>, "Helvetica", 120),
    Item(<<"a","."," ","e">>, TRUE, <<80, 117, 300, 129>>, "Helvetica", 120),
    Item(<<"b","."," ","f">>, TRUE, <<80, 134, 300, 146>>, "Helvetica", 120),
    Item(<<"2","."," ","b">>, TRUE, <<52, 117, 300, 129>>, "Times", 120),
    Item(<<"2","."," ","b">>, TRUE, <<52, 117, 300, 129>>, "Helvetica", 140),
    Item(<<"i","i","."," ","f">>, TRUE, <<50, 134, 300, 146>>, "", 0) }

MaxElements == 3

\* the pages of one to MaxElements elements
ElementLists == UNION { [1..n -> SampleItems] : n \in 1..MaxElements }

\* process_pdf's defaults for max_list_gap and max_indent_diff
max_list_gap == 20
max_indent_diff == 10

InitLists ==
    /\ lelems = <<>>
    /\ lgroup_lists = FALSE
    /\ lout = <<>>
    /\ luuid = 0
    /\ lpc = "idle"
    /\ IdleClassify /\ IdleMerge /\ IdleAnalyzer /\ IdleLater

\* the elements of a page are classified
TakeElements ==
    /\ lpc = "idle"
    /\ lelems' \in ElementLists
    /\ lpc' = "taken"
    /\ UNCHANGED <<lgroup_lists, lout, luuid>>
    /\ UNCHANGED NotLists

\* group_consecutive_list_items(elements, group_lists, max_gap, max_indent_diff)
\* of list_handler, as process_pdf calls it
GroupConsecutiveListItems ==
    /\ lpc = "taken"
    /\ \E group_lists \in BOOLEAN :
          /\ lgroup_lists' = group_lists
          /\ lout' = group_consecutive_list_items(
                         [n \in 1..Len(lelems) |-> handler_element(lelems[n])],
                         group_lists, max_list_gap, max_indent_diff, luuid).elements
          /\ luuid' = group_consecutive_list_items(
                         [n \in 1..Len(lelems) |-> handler_element(lelems[n])],
                         group_lists, max_list_gap, max_indent_diff, luuid).uuid
    /\ lpc' = "grouped"
    /\ UNCHANGED lelems
    /\ UNCHANGED NotLists

\* ListAnalyzer.analyze_list_items(page_elements)
AnalyzeListItems ==
    /\ lpc = "taken"
    /\ lout' = analyze_list_items([n \in 1..Len(lelems) |-> parsed_element(lelems[n])],
                                  luuid).elements
    /\ luuid' = analyze_list_items([n \in 1..Len(lelems) |-> parsed_element(lelems[n])],
                                   luuid).uuid
    /\ lpc' = "analysed"
    /\ UNCHANGED <<lelems, lgroup_lists>>
    /\ UNCHANGED NotLists

\* ElementClassifier.group_list_items(elements, page_context)
GroupListItems ==
    /\ lpc = "taken"
    /\ lout' = group_list_items([n \in 1..Len(lelems) |-> metrics_element(lelems[n])],
                                PageContext)
    /\ lpc' = "regrouped"
    /\ UNCHANGED <<lelems, lgroup_lists, luuid>>
    /\ UNCHANGED NotLists

\* handle_wrapped_list_item_lines(block1, block2) for the first two blocks;
\* lout is empty when it returns None
HandleWrappedListItemLines ==
    /\ lpc = "taken"
    /\ Len(lelems) >= 2
    /\ lout' = IF handle_wrapped_list_item_lines(block_of(lelems[1]), block_of(lelems[2])) = NoBlock
               THEN <<>>
               ELSE <<handle_wrapped_list_item_lines(block_of(lelems[1]), block_of(lelems[2]))>>
    /\ lpc' = "wrapped"
    /\ UNCHANGED <<lelems, lgroup_lists, luuid>>
    /\ UNCHANGED NotLists

\* merge_blocks(blocks) of spatial_grouper for the blocks as one group
MergeBlocks ==
    /\ lpc = "taken"
    /\ lout' = <<merge_blocks([n \in 1..Len(lelems) |-> block_of(lelems[n])])>>
    /\ lpc' = "merged"
    /\ UNCHANGED <<lelems, lgroup_lists, luuid>>
    /\ UNCHANGED NotLists

\* list_grouper.group_consecutive_list_items(elements, max_gap) for the
\* elements of the page as dicts
GroupListItemsOfGrouper ==
    /\ lpc = "taken"
    /\ lout' = list_grouper_group_consecutive_list_items(
                   [n \in 1..Len(lelems) |-> grouper_dict(lelems[n])], max_list_gap)
    /\ lpc' = "listed"
    /\ UNCHANGED <<lelems, lgroup_lists, luuid>>
    /\ UNCHANGED NotLists

NextLists ==
    \/ TakeElements
    \/ GroupListItemsOfGrouper
    \/ GroupConsecutiveListItems
    \/ AnalyzeListItems
    \/ GroupListItems
    \/ HandleWrappedListItemLines
    \/ MergeBlocks

SpecLists == InitLists /\ [][NextLists]_vars

\* the geometry and the font of two elements of the page, y growing downwards:
\* from the lower edge of the first to the upper edge of the second
VerticalGap(a, b) == Abs(b.bbox[2] - a.bbox[4])
IndentDifference(a, b) == Abs(b.bbox[1] - a.bbox[1])
SameFont(a, b) == a.font_name = b.font_name /\ a.font_size = b.font_size

\* C5: with grouping enabled, two list items that follow each other on the
\* page, at most 20pt apart vertically, at most 10pt apart in indent and of
\* the same font (name and size), receive the same list_group_id; two list
\* items with an element that is no list item between them receive different
\* list_group_ids.
C5_RelatedItemsShareGroup ==
    (lpc = "grouped" /\ lgroup_lists) =>
        /\ \A i \in 1..(Len(lelems) - 1) :
              ( /\ lelems[i].is_list /\ lelems[i + 1].is_list
                /\ VerticalGap(lelems[i], lelems[i + 1]) <= 20
                /\ IndentDifference(lelems[i], lelems[i + 1]) <= 10
                /\ SameFont(lelems[i], lelems[i + 1]) )
              => /\ lout[i].list_group_id # 0
                 /\ lout[i].list_group_id = lout[i + 1].list_group_id
        /\ \A i, j \in 1..Len(lelems) :
              ( /\ lelems[i].is_list /\ lelems[j].is_list
                /\ \E k \in (i + 1)..(j - 1) : ~lelems[k].is_list )
              => lout[i].list_group_id # lout[j].list_group_id

\* "1. a", then "2. b" 5pt below it at an indent 2pt larger in the same font,
\* then a paragraph: the two items are in one group
C5_Witness ==
    /\ lpc = "grouped" /\ lgroup_lists
    /\ Len(lelems) = 3
    /\ lelems[1] = Item(<<"1","."," ","a">>, TRUE, <<50, 100, 300, 112>>, "Helvetica", 120)
    /\ lelems[2] = Item(<<"2","."," ","b">>, TRUE, <<52, 117, 300, 129>>, "Helvetica", 120)
    /\ ~lelems[3].is_list
    /\ lout[1].list_group_id = 1
    /\ lout[2].list_group_id = 1

\* the positions of the list items among the elements after grouping
ListItemsOut == {i \in 1..Len(lout) : lout[i].element_type = "LIST_ITEM"}

\* C18: with list grouping disabled, every list item receives a list group
\* id, and no other list item of the page has the same one.
C18_UngroupedItemsHaveOwnId ==
    (lpc = "grouped" /\ ~lgroup_lists) =>
        /\ \A i \in ListItemsOut : lout[i].list_group_id # 0
        /\ \A i, j \in ListItemsOut :
              i # j => lout[i].list_group_id # lout[j].list_group_id

\* "1. a" and "2. b" 5pt below it in the same font, which grouping would put
\* in one group, have gone through with grouping disabled
C18_Witness ==
    /\ lpc = "grouped" /\ ~lgroup_lists
    /\ Len(lelems) >= 2
    /\ lelems[1] = Item(<<"1","."," ","a">>, TRUE, <<50, 100, 300, 112>>, "Helvetica", 120)
    /\ lelems[2] = Item(<<"2","."," ","b">>, TRUE, <<52, 117, 300, 129>>, "Helvetica", 120)
    /\ {1, 2} \subseteq ListItemsOut

\* the marker pattern type of a list item: bullet, number, letter or roman
MarkerType(text) == get_list_pattern_type(text).pattern_type

\* C6: the list items that share one list group id have the same marker
\* pattern type, and every element between two of them on the page is a list
\* item of that group.
C6_GroupSharesPatternType ==
    lpc = "grouped" =>
        \A i, j \in 1..Len(lout) :
            ( /\ i < j
              /\ lout[i].list_group_id # 0
              /\ lout[i].list_group_id = lout[j].list_group_id )
            => /\ MarkerType(lout[i].text) = MarkerType(lout[j].text)
               /\ \A k \in i..j : lout[k].list_group_id = lout[i].list_group_id

WellFormed(bbox) == bbox[1] <= bbox[3] /\ bbox[2] <= bbox[4]

\* C10: the bounding box of every block or element is well-formed after
\* fragments are merged into a block and after a wrapped continuation is
\* merged into the list item before it.
C10_BoxesWellFormed ==
    /\ lpc = "regrouped" => \A n \in 1..Len(lout) : WellFormed(lout[n].metrics.bbox)
    /\ lpc \in {"wrapped", "merged"} => \A n \in 1..Len(lout) : WellFormed(lout[n].bbox)

-----------------------------------------------------------------------------
(* caption_detector.py: is_likely_caption without preceding elements and   *)
(* find_caption_for_figure; main.py: the association of captions with      *)
(* figures in process_single_pdf.                                          *)

\* text_patterns.CAPTION_RE, the compiled CAPTION_PATTERNS (re.IGNORECASE)
CAPTION_RE == <<
    ReIC(ReCat(<<ReBol, ReAlt(<<ReStr(<<"F","i","g","u","r","e">>),
      ReCat(<<ReStr(<<"F","i","g">>), ReOpt(ReCh("."))>>),
      ReStr(<<"T","a","b","l","e">>), ReStr(<<"C","h","a","r","t">>),
      ReStr(<<"D","i","a","g","r","a","m">>), ReStr(<<"I","m","a","g","e">>),
      ReStr(<<"P","h","o","t","o">>),
      ReStr(<<"I","l","l","u","s","t","r","a","t","i","o","n">>),
      ReCat(<<ReStr(<<"F","i","g">>), ReOpt(ReCh(".")), ReStar(ReS),
      RePlus(ReD)>>)>>), ReOpt(ReSet({":", "."})), ReStar(ReS)>>)),
    ReIC(ReCat(<<ReBol, ReStar(ReS), ReOpt(ReCh("(")), ReStar(ReS),
      ReAlt(<<ReStr(<<"F","i","g","u","r","e">>),
      ReCat(<<ReStr(<<"F","i","g">>), ReOpt(ReCh("."))>>),
      ReStr(<<"T","a","b","l","e">>), ReStr(<<"C","h","a","r","t">>),
      ReStr(<<"D","i","a","g","r","a","m">>), ReStr(<<"I","m","a","g","e">>),
      ReStr(<<"P","h","o","t","o">>),
      ReStr(<<"I","l","l","u","s","t","r","a","t","i","o","n">>)>>),
      ReStar(ReS), RePlus(ReD), ReStar(ReS), ReOpt(ReCh(")")), ReStar(ReS),
      ReOpt(ReSet({":", ".", "-"})), ReStar(ReS)>>)),
    ReIC(ReCat(<<ReBol, ReStar(ReS), ReOpt(ReCh("[")), ReStar(ReS),
      ReAlt(<<ReStr(<<"F","i","g","u","r","e">>),
      ReCat(<<ReStr(<<"F","i","g">>), ReOpt(ReCh("."))>>),
      ReStr(<<"T","a","b","l","e">>), ReStr(<<"C","h","a","r","t">>),
      ReStr(<<"D","i","a","g","r","a","m">>), ReStr(<<"I","m","a","g","e">>),
      ReStr(<<"P","h","o","t","o">>),
      ReStr(<<"I","l","l","u","s","t","r","a","t","i","o","n">>)>>),
      ReStar(ReS), RePlus(ReD), ReStar(ReS), ReOpt(ReCh("]")), ReStar(ReS),
      ReOpt(ReSet({":", ".", "-"})), ReStar(ReS)>>)),
    ReIC(ReCat(<<ReBol, ReStar(ReS), RePlus(ReD), ReStar(ReS),
      ReOpt(ReSet({":", ".", "-"})), ReStar(ReS), ReSet(UpperChars)>>)) >>

\* step 5, lines 138-147: the caption phrase patterns (searched with re.IGNORECASE)
caption_phrases == <<
    ReIC(ReCat(<<ReBol, ReAlt(<<ReCat(<<ReStr(<<"f","i","g">>),
      ReOpt(ReStr(<<"u","r","e">>))>>), ReStr(<<"t","a","b","l","e">>),
      ReStr(<<"c","h","a","r","t">>), ReStr(<<"d","i","a","g","r","a","m">>),
      ReStr(<<"i","m","a","g","e">>), ReStr(<<"p","h","o","t","o">>),
      ReStr(<<"g","r","a","p","h">>),
      ReStr(<<"i","l","l","u","s","t","r","a","t","i","o","n">>),
      ReStr(<<"p","l","a","t","e">>), ReStr(<<"e","x","h","i","b","i","t">>),
      ReStr(<<"p","a","n","e","l">>), ReStr(<<"d","r","a","w","i","n","g">>),
      ReStr(<<"s","k","e","t","c","h">>),
      ReStr(<<"p","i","c","t","u","r","e">>), ReStr(<<"m","a","p">>),
      ReStr(<<"p","h","o","t","o","g","r","a","p","h">>),
      ReStr(<<"e","q","u","a","t","i","o","n">>),
      ReStr(<<"f","o","r","m","u","l","a">>),
      ReStr(<<"a","l","g","o","r","i","t","h","m">>),
      ReStr(<<"c","o","d","e">>), ReStr(<<"e","x","a","m","p","l","e">>),
      ReStr(<<"p","r","o","g","r","a","m">>),
      ReStr(<<"s","c","r","i","p","t">>),
      ReStr(<<"s","c","h","e","m","a","t","i","c">>),
      ReStr(<<"f","l","o","w","c","h","a","r","t">>),
      ReStr(<<"g","r","a","p","h","i","c">>),
      ReStr(<<"v","i","s","u","a","l","i","z","a","t","i","o","n">>),
      ReStr(<<"p","l","o","t">>), ReStr(<<"l","i","s","t","i","n","g">>)>>),
      ReStar(ReS), ReSet(DigitChars \cup LowerChars)>>)),
    ReIC(ReCat(<<ReWb, ReAlt(<<ReStr(<<"l","e","f","t">>),
      ReStr(<<"r","i","g","h","t">>), ReStr(<<"t","o","p">>),
      ReStr(<<"b","o","t","t","o","m">>), ReStr(<<"a","b","o","v","e">>),
      ReStr(<<"b","e","l","o","w">>), ReStr(<<"c","e","n","t","e","r">>),
      ReStr(<<"m","i","d","d","l","e">>), ReStr(<<"s","i","d","e">>),
      ReStr(<<"c","o","r","n","e","r">>)>>), ReWb>>)),
    ReIC(ReCat(<<ReWb, ReAlt(<<ReStr(<<"s","o","u","r","c","e">>),
      ReStr(<<"c","r","e","d","i","t">>), ReStr(<<"f","r","o","m">>),
      ReStr(<<"c","o","u","r","t","e","s","y"," ","o","f">>),
      ReStr(<<"p","h","o","t","o","g","r","a","p","h"," ","b","y">>),
      ReStr(<<"i","m","a","g","e"," ","b","y">>),
      ReStr(<<"p","h","o","t","o"," ","b","y">>),
      ReStr(<<"c","o","p","y","r","i","g","h","t">>),
      ReStr(<<"c","r","e","d","i","t"," ","l","i","n","e">>),
      ReStr(<<"p","h","o","t","o"," ","c","r","e","d","i","t">>),
      ReStr(<<"i","m","a","g","e"," ","c","r","e","d","i","t">>),
      ReStr(<<"c","o","u","r","t","e","s","y">>),
      ReStr(<<"p","e","r","m","i","s","s","i","o","n">>),
      ReStr(<<"r","e","p","r","o","d","u","c","e","d"," ","f","r","o","m">>)>>),
      ReWb>>)),
    ReIC(ReCat(<<ReWb, ReAlt(<<ReStr(<<"c","a","p","t","i","o","n">>),
      ReStr(<<"f","i","g","u","r","e">>), ReStr(<<"f","i","g">>),
      ReStr(<<"t","a","b","l","e">>), ReStr(<<"c","h","a","r","t">>),
      ReStr(<<"d","i","a","g","r","a","m">>), ReStr(<<"i","m","a","g","e">>),
      ReStr(<<"p","h","o","t","o">>), ReStr(<<"g","r","a","p","h">>),
      ReStr(<<"i","l","l","u","s","t","r","a","t","i","o","n">>),
      ReStr(<<"p","l","a","t","e">>), ReStr(<<"e","x","h","i","b","i","t">>),
      ReStr(<<"p","a","n","e","l">>), ReStr(<<"d","r","a","w","i","n","g">>),
      ReStr(<<"s","k","e","t","c","h">>),
      ReStr(<<"p","i","c","t","u","r","e">>), ReStr(<<"m","a","p">>),
      ReStr(<<"p","h","o","t","o","g","r","a","p","h">>),
      ReStr(<<"e","q","u","a","t","i","o","n">>),
      ReStr(<<"f","o","r","m","u","l","a">>),
      ReStr(<<"a","l","g","o","r","i","t","h","m">>),
      ReStr(<<"c","o","d","e">>), ReStr(<<"e","x","a","m","p","l","e">>),
      ReStr(<<"p","r","o","g","r","a","m">>),
      ReStr(<<"s","c","r","i","p","t">>),
      ReStr(<<"s","c","h","e","m","a","t","i","c">>),
      ReStr(<<"f","l","o","w","c","h","a","r","t">>),
      ReStr(<<"g","r","a","p","h","i","c">>),
      ReStr(<<"v","i","s","u","a","l","i","z","a","t","i","o","n">>),
      ReStr(<<"p","l","o","t">>), ReStr(<<"l","i","s","t","i","n","g">>)>>),
      ReOpt(ReSet({":", "."})), ReStar(ReS),
      ReSet(DigitChars \cup LowerChars)>>)) >>

\* lines 156-160
caption_number_patterns == <<
    ReIC(ReCat(<<ReBol, ReAlt(<<ReCat(<<ReStr(<<"f","i","g">>),
      ReOpt(ReStr(<<"u","r","e">>))>>), ReStr(<<"t","a","b","l","e">>),
      ReStr(<<"c","h","a","r","t">>), ReStr(<<"d","i","a","g","r","a","m">>),
      ReStr(<<"i","m","a","g","e">>), ReStr(<<"p","h","o","t","o">>),
      ReStr(<<"g","r","a","p","h">>)>>), ReStar(ReS), RePlus(ReD),
      ReStar(ReCat(<<ReCh("."), RePlus(ReD)>>)), ReOpt(ReSet({".", ":"}))>>)),
    ReIC(ReCat(<<ReBol, ReSet(UpperChars \cup LowerChars), ReStar(ReS),
      RePlus(ReD), ReSet({".", ":"})>>)),
    ReIC(ReCat(<<ReBol, ReOpt(ReCh("(")),
      ReSet(UpperChars \cup LowerChars \cup DigitChars), ReStar(ReS),
      ReSet({")", ":"})>>)) >>

\* step 12, lines 242-247
caption_patterns == <<
    ReIC(ReCat(<<ReAlt(<<ReCat(<<ReStr(<<"f","i","g">>),
      ReOpt(ReStr(<<"u","r","e">>))>>), ReStr(<<"t","a","b","l","e">>),
      ReStr(<<"c","h","a","r","t">>), ReStr(<<"d","i","a","g","r","a","m">>),
      ReStr(<<"i","m","a","g","e">>), ReStr(<<"p","h","o","t","o">>)>>),
      ReStar(ReS), RePlus(ReD), ReStar(ReCat(<<ReCh("."), RePlus(ReD)>>)),
      ReOpt(ReSet({".", ":"}))>>)),
    ReIC(ReCat(<<ReBol, ReAlt(<<ReCat(<<ReStr(<<"f","i","g">>),
      ReOpt(ReCh(".")), ReStar(ReS), RePlus(ReD)>>),
      ReCat(<<ReStr(<<"t","a","b","l","e">>), RePlus(ReS), RePlus(ReSet({"i",
      "v", "x", "c", "l"}))>>), ReCat(<<ReStr(<<"f","i","g">>), ReStar(ReS),
      ReSet(LowerChars)>>)>>), ReWb>>)),
    ReIC(ReCat(<<ReBol, ReStar(ReS), ReOpt(ReCat(<<RePlus(ReSet(LowerChars)),
      ReCh("."), ReStar(ReS)>>)), ReOpt(ReCh("(")), ReStar(ReS),
      ReAlt(<<ReStr(<<"f","i","g">>), ReStr(<<"f","i","g",".">>),
      ReStr(<<"f","i","g","u","r","e">>), ReStr(<<"t","a","b","l","e">>),
      ReStr(<<"t","a","b">>), ReStr(<<"c","h","a","r","t">>),
      ReStr(<<"d","i","a","g">>), ReStr(<<"i","l","l">>),
      ReStr(<<"i","m","g">>), ReStr(<<"p","h","o","t","o">>)>>),
      ReOpt(ReCh(".")), ReStar(ReS), RePlus(ReD), ReStar(ReS),
      ReOpt(ReCh(")"))>>)),
    ReIC(ReCat(<<ReBol, ReStar(ReS), ReOpt(ReCh("[")),
      ReAlt(<<ReStr(<<"f","i","g">>), ReStr(<<"f","i","g","u","r","e">>),
      ReStr(<<"t","a","b","l","e">>), ReStr(<<"t","a","b">>),
      ReStr(<<"c","h","a","r","t">>), ReStr(<<"d","i","a","g","r","a","m">>),
      ReStr(<<"i","l","l","u","s","t","r","a","t","i","o","n">>),
      ReStr(<<"i","m","a","g","e">>), ReStr(<<"p","h","o","t","o">>)>>),
      ReOpt(ReCh(".")), ReStar(ReS), RePlus(ReD), ReOpt(ReCh("]"))>>)) >>

\* step 13, lines 256-259
credit_indicators == {
    <<"s","o","u","r","c","e",":">>,
    <<"c","r","e","d","i","t",":">>,
    <<"c","o","u","r","t","e","s","y"," ","o","f">>,
    <<"p","h","o","t","o","g","r","a","p","h"," ","b","y">>,
    <<"c","o","p","y","r","i","g","h","t">>,
    <<"i","m","a","g","e"," ","b","y">>,
    <<"p","h","o","t","o"," ","b","y">>,
    <<"c","o","u","r","t","e","s","y">>,
    <<"f","r","o","m">>,
    <<"a","f","t","e","r">>,
    <<"m","o","d","i","f","i","e","d"," ","f","r","o","m">> }

\* lines 309-312: the second list named caption_phrases
common_caption_phrases == {
    <<"f","i","g","u","r","e">>,
    <<"f","i","g",".">>,
    <<"t","a","b","l","e">>,
    <<"c","h","a","r","t">>,
    <<"d","i","a","g","r","a","m">>,
    <<"i","l","l","u","s","t","r","a","t","i","o","n">>,
    <<"i","m","a","g","e">>,
    <<"p","h","o","t","o">>,
    <<"s","o","u","r","c","e",":">>,
    <<"c","r","e","d","i","t",":">>,
    <<"c","a","p","t","i","o","n",":">> }

\* the weights of caption_phrases
caption_phrase_weights == <<80, 30, 50, 90>>

\* steps 1, 5, 12 and 13 and the numbered-caption test of lines 162-167: which
\* of the indicators whose reason counts in step 14 are present
indicator_hits(text, text_lower, words) ==
    << \E n \in 1..Len(CAPTION_RE) :
           ReSearch(CAPTION_RE[n], Lower(Join(SubSeq(words, 1, Min2(4, Len(words)))))),
       ReSearch(caption_phrases[1], text_lower),
       ReSearch(caption_phrases[2], text_lower),
       ReSearch(caption_phrases[3], text_lower),
       ReSearch(caption_phrases[4], text_lower),
       \E n \in 1..Len(caption_number_patterns) :
           ReMatch(caption_number_patterns[n], Join(SubSeq(words, 1, Min2(3, Len(words))))),
       Len(words) > 25 \/ Len(text) > 300,
       \E n \in 1..Len(caption_patterns) : ReSearch(caption_patterns[n], text_lower),
       \E indicator \in credit_indicators : Contains(text_lower, indicator) >>

\* what the indicators add to the confidence, step 14 included
indicator_weights(text, words) ==
    << 90, caption_phrase_weights[1], caption_phrase_weights[2],
       caption_phrase_weights[3], caption_phrase_weights[4], 70,
       IF Len(words) > 50 \/ Len(text) > 300 THEN -30 ELSE -10, 40, 30 >>

RECURSIVE WeightedHits(_, _, _)
WeightedHits(hits, weights, n) ==
    IF n > Len(hits) THEN 0
    ELSE (IF hits[n] THEN weights[n] ELSE 0) + WeightedHits(hits, weights, n + 1)

indicator_confidence(hits, weights) ==
    LET indicator_count == WeightedHits(hits, [n \in 1..Len(hits) |-> 1], 1)
    IN  WeightedHits(hits, weights, 1)
        + (IF indicator_count >= 2 THEN Min2(30, 15 * indicator_count) ELSE 0)

\* steps 2, 3, 6, 7 and 9: length, position, font and first and last character
layout_confidence(text, words, bbox, style_info, page_info) ==
    (IF 3 <= Len(words) /\ Len(words) <= 100 THEN 30 ELSE 0)
    + (IF /\ page_info.width > 0
          /\ 10 * (bbox[1] + bbox[3]) >= 8 * page_info.width
          /\ 10 * (bbox[1] + bbox[3]) <= 12 * page_info.width THEN 10 ELSE 0)
    + (IF style_info.font_size > 0
       THEN (IF 10 * style_info.font_size < 9 * DefaultMedianFontSize THEN 30
             ELSE IF 10 * style_info.font_size < 11 * DefaultMedianFontSize THEN 10
             ELSE -10)
       ELSE 0)
    + (IF style_info.italic THEN 20 ELSE 0)
    + (IF text[1] \in UpperChars /\ Len(words) > 1 THEN 10 ELSE 0)
    + (IF text[Len(text)] \notin {".", "!", "?"} THEN 10 ELSE 0)

\* lines 305-337: what is added after the first capping of the confidence
final_confidence(confidence, text, text_lower, bbox, elements_after) ==
    Clamp01(confidence
        + (IF \E phrase \in common_caption_phrases : Contains(text_lower, phrase)
           THEN 40 ELSE 0)
        + (IF ~HasChar(text, "\n") THEN 10 ELSE 0)
        - (IF /\ elements_after # <<>>
              /\ elements_after[1].bbox[2] - bbox[4] > 0
              /\ elements_after[1].bbox[2] - bbox[4] < 10 THEN 20 ELSE 0))

\* is_likely_caption called with an empty elements_before: steps 4, 8, 11 and
\* 15 are skipped, so that nothing reads the missing name ElementType
unpreceded_caption(text, bbox, style_info, page_info, elements_after) ==
    LET t == Strip(text)
        none == [raised |-> FALSE, is_caption |-> FALSE, confidence |-> 0]
        scored(c) == [raised |-> FALSE, is_caption |-> c > 50, confidence |-> c]
    IN  IF t = <<>> \/ Len(bbox) < 4 THEN none
        ELSE IF Len(Split(t)) > 50 \/ Len(t) > 400 THEN none
        ELSE scored(final_confidence(
                 Clamp01(indicator_confidence(indicator_hits(t, Lower(t), Split(t)),
                                              indicator_weights(t, Split(t)))
                         + layout_confidence(t, Split(t), bbox, style_info, page_info)),
                 t, Lower(t), bbox, elements_after))

\* get_style_info of a dict element
get_style_info(element) == element.metadata.style_info

\* the call of is_likely_caption at lines 398-405 and 414-421, for the element
\* at index i (counted from 1)
caption_call(elements, i) ==
    LET element == elements[i]
        elements_before == SubSeq(elements, Max2(1, i - 3), i - 1)
        elements_after == SubSeq(elements, i + 1, Min2(Len(elements), i + 3))
    IN  IF elements_before = <<>>
        THEN unpreceded_caption(element.text, element.bbox, get_style_info(element),
                 [width |-> element.bbox[3] * 2, height |-> element.bbox[4] * 2],
                 elements_after)
        ELSE is_likely_caption(element.text, element.bbox, elements_before)

NoCaption == [raised |-> FALSE, idx |-> 0]

\* lines 394-422: the elements from index i up to index last are tried in
\* order; side is "below" or "above"
RECURSIVE caption_among(_, _, _, _, _)
caption_found(elements, figure_bbox, side, i, last, likely) ==
    IF likely.raised THEN [raised |-> TRUE, idx |-> 0]
    ELSE IF likely.is_caption THEN [raised |-> FALSE, idx |-> i]
    ELSE caption_among(elements, figure_bbox, side, i + 1, last)

caption_among(elements, figure_bbox, side, i, last) ==
    IF i > last THEN NoCaption
    ELSE IF \/ side = "below" /\ elements[i].bbox[2] > figure_bbox[4]
            \/ side = "above" /\ elements[i].bbox[4] < figure_bbox[2]
         THEN caption_found(elements, figure_bbox, side, i, last, caption_call(elements, i))
         ELSE caption_among(elements, figure_bbox, side, i + 1, last)

\* lines 410-424: the elements above are tried when none below is a caption
below_then_above(elements, figure_bbox, figure_idx, below) ==
    IF below.raised \/ below.idx # 0 THEN below
    ELSE caption_among(elements, figure_bbox, "above",
                       Max2(1, figure_idx - 3), figure_idx - 1)

\* find_caption_for_figure: the index of the caption (counted from 1, 0 for
\* None), or the exception is_likely_caption raised
find_caption_for_figure(figure_element, elements) ==
    LET figure_idx == CHOOSE j \in 1..Len(elements) :
                          /\ elements[j] = figure_element
                          /\ \A k \in 1..(j - 1) : elements[k] # figure_element
    IN  IF elements = <<>> \/ Len(figure_element.bbox) < 4 THEN NoCaption
        ELSE IF \A j \in 1..Len(elements) : elements[j] # figure_element THEN NoCaption
        ELSE below_then_above(elements, figure_element.bbox, figure_idx,
                 caption_among(elements, figure_element.bbox, "below",
                               figure_idx + 1, Min2(figure_idx + 4, Len(elements))))

\* an element of elements_dict (main.py, element_to_dict): the caption of the
\* metadata is the empty sequence while the key is absent
ElementDict(text, element_type, bbox, page_number, font_size, italic) ==
    [text |-> text, element_type |-> element_type, bbox |-> bbox,
     page_number |-> page_number,
     metadata |-> [style_info |-> [font_size |-> font_size, italic |-> italic],
                   caption |-> <<>>]]

\* a faulty variant of associate: the text of the caption moves into the
\* figure and the caption element is emptied
associate_absorbing(elements_dict, fig, idx) ==
    [[elements_dict EXCEPT ![idx].element_type = "DISCARDED", ![idx].text = <<>>]
        EXCEPT ![fig].metadata.caption = <<Strip(elements_dict[idx].text)>>]

\* main.py lines 530-533: the element at idx becomes a FIGURE_CAPTION and the
\* metadata of the figure records its text
associate(elements_dict, fig, idx) ==
    [[elements_dict EXCEPT ![idx].element_type = "FIGURE_CAPTION"]
        EXCEPT ![fig].metadata.caption = <<Strip(elements_dict[idx].text)>>]

\* main.py line 528: the indices of the FIGURE elements, in order
RECURSIVE figure_indices(_, _)
figure_indices(elements_dict, n) ==
    IF n > Len(elements_dict) THEN <<>>
    ELSE (IF elements_dict[n].element_type = "FIGURE" THEN <<n>> ELSE <<>>)
         \o figure_indices(elements_dict, n + 1)

\* main.py lines 528-533: the loop over the figures.  run holds the list, the
\* associations made so far as pairs <<figure, caption>> of indices, and
\* whether find_caption_for_figure raised, which ends process_single_pdf in
\* its handler at line 561.
RECURSIVE associate_captions(_, _, _)
associate_found(run, figs, n, found) ==
    IF found.raised THEN [run EXCEPT !.raised = TRUE]
    ELSE IF found.idx = 0 THEN associate_captions(run, figs, n + 1)
    ELSE associate_captions(
             [raised |-> FALSE,
              elements_dict |-> associate(run.elements_dict, figs[n], found.idx),
              pairs |-> Append(run.pairs, <<figs[n], found.idx>>)],
             figs, n + 1)

associate_captions(run, figs, n) ==
    IF n > Len(figs) THEN run
    ELSE associate_found(run, figs, n,
             find_caption_for_figure(run.elements_dict[figs[n]], run.elements_dict))

-----------------------------------------------------------------------------
(* The caption association as a state machine.                             *)

MaxDictElements == 3

SampleDicts == {
    ElementDict(<<"F","i","g","u","r","e"," ","1",":"," ","R","e","s","u","l","t","s">>,
        "TEXT", <<50, 100, 300, 112>>, 1, 100, FALSE),
    ElementDict(<<"P","l","a","i","n"," ","t","e","x","t",".">>,
        "TEXT", <<50, 100, 300, 112>>, 1, 120, FALSE),
    ElementDict(<<"F","r","o","m"," ","t","h","e"," ","l","e","f","t">>,
        "TEXT", <<150, 100, 300, 112>>, 1, 120, TRUE),
    ElementDict(<<>>,
        "TEXT", <<50, 100, 300, 112>>, 1, 0, FALSE),
    ElementDict(<<"[","F","i","g","u","r","e"," ","1","]">>,
        "FIGURE", <<50, 300, 300, 400>>, 1, 0, FALSE),
    ElementDict(<<"[","F","i","g","u","r","e"," ","2","]">>,
        "FIGURE", <<50, 300, 300, 400>>, 2, 0, FALSE),
    ElementDict(<<"T","a","b","l","e"," ","2">>,
        "TEXT", <<50, 500, 300, 512>>, 2, 120, FALSE),
    ElementDict(<<"P","l","a","i","n"," ","t","e","x","t",".">>,
        "TEXT", <<50, 100, 300, 112>>, 2, 140, FALSE),
    ElementDict(<<"s","e","e"," ","a","b","o","v","e">>,
        "TEXT", <<50, 405, 300, 417>>, 2, 120, FALSE) }

\* main.py lines 501-504: elements are sorted by page and then by falling y0
SortedByPage(elements) ==
    \A n \in 1..(Len(elements) - 1) :
        \/ elements[n].page_number < elements[n + 1].page_number
        \/ /\ elements[n].page_number = elements[n + 1].page_number
           /\ elements[n].bbox[2] >= elements[n + 1].bbox[2]

ElementDictLists ==
    {elements \in UNION {[1..n -> SampleDicts] : n \in 1..MaxDictElements} :
        SortedByPage(elements)}

InitCaptions ==
    /\ einput = <<>>
    /\ eresult = <<>>
    /\ epc = "start"
    /\ IdleClassify /\ IdleMerge /\ IdleAnalyzer /\ IdleLists
    /\ IdleStructure /\ IdlePipeline /\ IdleColumns

\* process_single_pdf has converted and sorted the elements of a document
TakeElementsDict ==
    /\ epc = "start"
    /\ einput' \in ElementDictLists
    /\ eresult' = <<>>
    /\ epc' = "taken"
    /\ UNCHANGED NotCaptions

\* main.py lines 527-533
AssociateCaptions ==
    /\ epc = "taken"
    /\ eresult' = associate_captions(
                      [raised |-> FALSE, elements_dict |-> einput, pairs |-> <<>>],
                      figure_indices(einput, 1), 1)
    /\ epc' = IF eresult'.raised THEN "failed" ELSE "associated"
    /\ UNCHANGED einput
    /\ UNCHANGED NotCaptions

NextCaptions == TakeElementsDict \/ AssociateCaptions

SpecCaptions == InitCaptions /\ [][NextCaptions]_vars

-----------------------------------------------------------------------------
(* document_structure.py: the split detectors and                          *)
(* DocumentStructureAnalyzer.analyze.  Pages are numbered from 1; a block  *)
(* is a dict with text, bbox, style_info (font, size in tenths of a point; *)
(* "" and 0 where the key is absent) and element_type.                     *)

\* detect_split_continuations, lines 29-34 (searched with re.IGNORECASE)
continuation_patterns == <<
    ReIC(ReCat(<<ReStr(<<"c","o","n","t","i","n","u","e","d">>), RePlus(ReS),
      ReStr(<<"o","n">>), RePlus(ReS), ReStr(<<"n","e","x","t">>),
      RePlus(ReS), ReStr(<<"p","a","g","e">>)>>)),
    ReIC(ReCat(<<ReStr(<<"t","o">>), RePlus(ReS), ReStr(<<"b","e">>),
      RePlus(ReS), ReStr(<<"c","o","n","t","i","n","u","e","d">>)>>)),
    ReIC(ReCat(<<ReStr(<<"c","o","n","t">>), ReOpt(ReCh(".")), ReStar(ReS),
      ReEol>>)),
    ReIC(ReCat(<<ReStr(<<"c","o","n","t","i","n","u","e","s">>), RePlus(ReS),
      ReStr(<<"n","e","x","t">>)>>)) >>

\* detect_split_tables, lines 122-126 (searched with re.IGNORECASE)
table_patterns == <<
    ReIC(ReCat(<<ReStr(<<"t","a","b","l","e">>), RePlus(ReS), RePlus(ReD)>>)),
    ReIC(ReCat(<<ReStr(<<"t","a","b">>), ReStar(ReS), RePlus(ReD)>>)),
    ReIC(ReCat(<<ReStr(<<"t","b","l">>), ReStar(ReS), RePlus(ReD)>>)) >>


\* a faulty variant of SplitMarker: source and target page exchanged
SplitMarkerReversed(split_type, source_page, target_page, source_bbox, target_bbox, confidence) ==
    [split_type |-> split_type, source_page |-> target_page,
     target_page |-> source_page, source_bbox |-> source_bbox,
     target_bbox |-> target_bbox, confidence |-> confidence]

\* the dataclass SplitMarker; a target_bbox of None is the empty tuple
SplitMarker(split_type, source_page, target_page, source_bbox, target_bbox, confidence) ==
    [split_type |-> split_type, source_page |-> source_page,
     target_page |-> target_page, source_bbox |-> source_bbox,
     target_bbox |-> target_bbox, confidence |-> confidence]

last_of(page) == page.blocks[Len(page.blocks)]
first_of(page) == page.blocks[1]

\* lines 43-51 and 56-64: one CONTINUATION marker for every pattern found in
\* the block
RECURSIVE continuation_markers(_, _, _)
continuation_markers(block, i, n) ==
    IF n > Len(continuation_patterns) THEN <<>>
    ELSE (IF ReSearch(continuation_patterns[n], block.text)
          THEN <<SplitMarker("CONTINUATION", i, i + 1, block.bbox, <<>>, 90)>>
          ELSE <<>>)
         \o continuation_markers(block, i, n + 1)

\* detect_split_continuations; i is the number of the current page
RECURSIVE detect_split_continuations_from(_, _)
detect_split_continuations_from(pages, i) ==
    IF i > Len(pages) - 1 THEN <<>>
    ELSE (IF pages[i].blocks # <<>>
          THEN continuation_markers(last_of(pages[i]), i, 1) ELSE <<>>)
         \o (IF pages[i + 1].blocks # <<>>
             THEN continuation_markers(first_of(pages[i + 1]), i, 1) ELSE <<>>)
         \o detect_split_continuations_from(pages, i + 1)

detect_split_continuations(pages) == detect_split_continuations_from(pages, 1)

\* lines 86-88 and 104-106: the same stripped text, x0 less than 20 apart and
\* the same font
same_furniture(a, b) ==
    /\ Strip(a.text) = Strip(b.text)
    /\ Abs(a.bbox[1] - b.bbox[1]) < 20
    /\ a.style_info.font = b.style_info.font

RECURSIVE detect_split_headers_footers_from(_, _)
detect_split_headers_footers_from(pages, i) ==
    IF i > Len(pages) - 1 THEN <<>>
    ELSE (IF /\ pages[i].blocks # <<>> /\ pages[i + 1].blocks # <<>>
             /\ same_furniture(first_of(pages[i]), first_of(pages[i + 1]))
          THEN <<SplitMarker("SPLIT_HEADER", i, i + 1, first_of(pages[i]).bbox,
                             first_of(pages[i + 1]).bbox, 80)>>
          ELSE <<>>)
         \o (IF /\ pages[i].blocks # <<>> /\ pages[i + 1].blocks # <<>>
                /\ same_furniture(last_of(pages[i]), last_of(pages[i + 1]))
             THEN <<SplitMarker("SPLIT_FOOTER", i, i + 1, last_of(pages[i]).bbox,
                                last_of(pages[i + 1]).bbox, 80)>>
             ELSE <<>>)
         \o detect_split_headers_footers_from(pages, i + 1)

detect_split_headers_footers(pages) ==
    IF Len(pages) < 2 THEN <<>> ELSE detect_split_headers_footers_from(pages, 1)

\* lines 135 and 139: any table pattern is found in the text
matches_table_pattern(text) ==
    \E n \in 1..Len(table_patterns) : ReSearch(table_patterns[n], text)

\* a faulty variant of detect_split_tables: no table is ever seen as split
detect_no_split_tables(pages) == <<>>

RECURSIVE detect_split_tables_from(_, _)
detect_split_tables_from(pages, i) ==
    IF i > Len(pages) - 1 THEN <<>>
    ELSE (IF /\ pages[i].blocks # <<>>
             /\ matches_table_pattern(last_of(pages[i]).text)
             /\ pages[i + 1].blocks # <<>>
             /\ matches_table_pattern(first_of(pages[i + 1]).text)
          THEN <<SplitMarker("SPLIT_TABLE", i, i + 1, last_of(pages[i]).bbox,
                             first_of(pages[i + 1]).bbox, 85)>>
          ELSE <<>>)
         \o detect_split_tables_from(pages, i + 1)

detect_split_tables(pages) == detect_split_tables_from(pages, 1)

RECURSIVE detect_split_lists_from(_, _)
detect_split_lists_from(pages, i) ==
    IF i > Len(pages) - 1 THEN <<>>
    ELSE (IF /\ pages[i].blocks # <<>>
             /\ last_of(pages[i]).element_type = "LIST_ITEM"
             /\ pages[i + 1].blocks # <<>>
             /\ first_of(pages[i + 1]).element_type = "LIST_ITEM"
             /\ Abs(last_of(pages[i]).bbox[1] - first_of(pages[i + 1]).bbox[1]) < 10
          THEN <<SplitMarker("SPLIT_LIST", i, i + 1, last_of(pages[i]).bbox,
                             first_of(pages[i + 1]).bbox, 90)>>
          ELSE <<>>)
         \o detect_split_lists_from(pages, i + 1)

detect_split_lists(pages) == detect_split_lists_from(pages, 1)

\* lines 195-203: the paragraph at the end of a page goes on at the top of the
\* next one (the bullets of line 198 other than "-" lie outside the alphabet)
paragraph_flows(last_block, first_block) ==
    /\ last_block.element_type = "TEXT"
    /\ first_block.element_type = "TEXT"
    /\ ~(\E c \in {".", "!", "?"} : EndsWith(Strip(last_block.text), <<c>>))
    /\ ~StartsWith(Strip(first_block.text), <<"-">>)
    /\ Abs(last_block.bbox[1] - first_block.bbox[1]) < 15
    /\ last_block.style_info.font = first_block.style_info.font
    /\ Abs(last_block.style_info.size - first_block.style_info.size) < 5

RECURSIVE detect_split_paragraphs_from(_, _)
detect_split_paragraphs_from(pages, i) ==
    IF i > Len(pages) - 1 THEN <<>>
    ELSE (IF /\ pages[i].blocks # <<>> /\ pages[i + 1].blocks # <<>>
             /\ paragraph_flows(last_of(pages[i]), first_of(pages[i + 1]))
          THEN <<SplitMarker("SPLIT_PARAGRAPH", i, i + 1, last_of(pages[i]).bbox,
                             first_of(pages[i + 1]).bbox, 80)>>
          ELSE <<>>)
         \o detect_split_paragraphs_from(pages, i + 1)

detect_split_paragraphs(pages) == detect_split_paragraphs_from(pages, 1)

\* line 234: the stable sort by source page and then by falling y0 of the
\* source box
MarkerBefore(a, b) ==
    \/ a.source_page < b.source_page
    \/ a.source_page = b.source_page /\ a.source_bbox[2] > b.source_bbox[2]

RECURSIVE InsertMarker(_, _)
InsertMarker(sorted, m) ==
    IF sorted = <<>> THEN <<m>>
    ELSE IF MarkerBefore(m, sorted[Len(sorted)])
         THEN Append(InsertMarker(SubSeq(sorted, 1, Len(sorted) - 1), m), sorted[Len(sorted)])
         ELSE Append(sorted, m)

RECURSIVE SortMarkers(_)
SortMarkers(markers) ==
    IF markers = <<>> THEN <<>>
    ELSE InsertMarker(SortMarkers(SubSeq(markers, 1, Len(markers) - 1)), markers[Len(markers)])

\* DocumentStructureAnalyzer.analyze
analyze(pages) ==
    SortMarkers(detect_split_continuations(pages)
                \o detect_split_headers_footers(pages)
                \o detect_split_tables(pages)
                \o detect_split_lists(pages)
                \o detect_split_paragraphs(pages))

-----------------------------------------------------------------------------
(* The structure analysis as a state machine.                              *)

MaxStructurePages == 3

StructureBlock(text, x0, y0, font, size, element_type) ==
    [text |-> text, bbox |-> <<x0, y0, x0 + 250, y0 + 12>>,
     style_info |-> [font |-> font, size |-> size], element_type |-> element_type]

StructurePage(blocks) == [blocks |-> blocks]

StructurePages == {
    StructurePage(<<>>),
    StructurePage(<<StructureBlock(<<"A","n","n","u","a","l"," ","R","e","p","o","r","t">>,
            50, 40, "Helvetica", 100, "TEXT"),
        StructureBlock(<<"T","a","b","l","e"," ","1"," ","c","o","n","t",".">>,
            50, 700, "Helvetica", 120, "TEXT")>>),
    StructurePage(<<StructureBlock(<<"T","a","b","l","e"," ","1"," ","(","c","o","n","t","i","n","u","e","d",")">>,
            50, 60, "Helvetica", 120, "TEXT"),
        StructureBlock(<<"t","h","e"," ","r","e","s","u","l","t","s"," ","w","e","r","e">>,
            50, 700, "Helvetica", 120, "TEXT")>>),
    StructurePage(<<StructureBlock(<<"A","n","n","u","a","l"," ","R","e","p","o","r","t">>,
            50, 40, "Helvetica", 100, "TEXT"),
        StructureBlock(<<"t","a","b"," ","2"," ","T","a","b","l","e"," ","3">>,
            50, 700, "Times", 120, "TEXT")>>),
    StructurePage(<<StructureBlock(<<"n","o","t"," ","s","i","g","n","i","f","i","c","a","n","t",".">>,
            55, 60, "Helvetica", 122, "TEXT"),
        StructureBlock(<<"3","."," ","t","h","i","r","d">>,
            60, 700, "Helvetica", 120, "LIST_ITEM")>>),
    StructurePage(<<StructureBlock(<<"n","o","t"," ","s","i","g","n","i","f","i","c","a","n","t",".">>,
            55, 60, "Helvetica", 130, "TEXT"),
        StructureBlock(<<"t","h","e"," ","r","e","s","u","l","t","s"," ","w","e","r","e">>,
            50, 700, "Helvetica", 120, "TEXT")>>),
    StructurePage(<<StructureBlock(<<"-"," ","t","o"," ","b","e"," ","c","o","n","t","i","n","u","e","d"," ","c","o","n","t",".">>,
            80, 60, "", 0, "LIST_ITEM"),
        StructureBlock(<<"T","a","b","l","e"," ","1"," ","c","o","n","t",".">>,
            50, 700, "Helvetica", 120, "TEXT")>>),
    StructurePage(<<StructureBlock(<<"A","n","n","u","a","l"," ","R","e","p","o","r","t">>,
            50, 40, "Helvetica", 100, "TEXT"),
        StructureBlock(<<"3","."," ","t","h","i","r","d">>,
            60, 700, "Helvetica", 120, "LIST_ITEM")>>),
    StructurePage(<<StructureBlock(<<"4","."," ","f","o","u","r","t","h">>,
            62, 60, "Helvetica", 120, "LIST_ITEM"),
        StructureBlock(<<"t","a","b"," ","2"," ","T","a","b","l","e"," ","3">>,
            50, 700, "Times", 120, "TEXT")>>),
    StructurePage(<<StructureBlock(<<"T","a","b","l","e"," ","3"," ","c","o","n","t",".">>,
            60, 60, "Times", 122, "TEXT"),
        StructureBlock(<<"t","a","b"," ","2"," ","T","a","b","l","e"," ","3">>,
            50, 700, "Times", 120, "TEXT")>>) }

StructureDocuments ==
    UNION {[1..n -> StructurePages] : n \in 1..MaxStructurePages}

InitStructure ==
    /\ sdoc = <<>>
    /\ smarkers = <<>>
    /\ spc = "constructed"
    /\ IdleClassify /\ IdleMerge /\ IdleAnalyzer /\ IdleLists
    /\ IdleCaptions /\ IdlePipeline /\ IdleColumns

\* DocumentStructureAnalyzer.analyze, called with the pages of a document
Analyze ==
    /\ spc = "constructed"
    /\ \E pages \in StructureDocuments :
          /\ sdoc' = pages
          /\ smarkers' = analyze(pages)
    /\ spc' = "analysed"
    /\ UNCHANGED NotStructure

\* get_split_elements and get_continuation_markers leave the markers alone
GetSplitElements ==
    /\ spc = "analysed"
    /\ spc' = "read"
    /\ UNCHANGED <<sdoc, smarkers>>
    /\ UNCHANGED NotStructure

NextStructure == Analyze \/ GetSplitElements

SpecStructure == InitStructure /\ [][NextStructure]_vars

\* the markers of one type whose source is page n
MarkersFrom(split_type, n) ==
    {k \in 1..Len(smarkers) :
        smarkers[k].split_type = split_type /\ smarkers[k].source_page = n}

\* the last block of page n and the first block of page n + 1 both name a
\* table: the word table, tab or tbl followed by a number
TableRunsOver(n) ==
    /\ sdoc[n].blocks # <<>> /\ sdoc[n + 1].blocks # <<>>
    /\ matches_table_pattern(last_of(sdoc[n]).text)
    /\ matches_table_pattern(first_of(sdoc[n + 1]).text)

\* C13: when the last block of page N and the first block of page N+1 both
\* match the table-number pattern, exactly one SPLIT_TABLE marker is reported
\* for the pair, and it links page N to page N+1.
C13_OneSplitTablePerPair ==
    spc # "constructed" /\ spc # "idle" =>
        \A n \in 1..(Len(sdoc) - 1) :
            TableRunsOver(n) =>
                /\ Cardinality(MarkersFrom("SPLIT_TABLE", n)) = 1
                /\ \A k \in MarkersFrom("SPLIT_TABLE", n) :
                       smarkers[k].target_page = n + 1

\* a table runs over a page break, in texts that match several table patterns
C13_Witness ==
    /\ spc = "analysed"
    /\ \E n \in 1..(Len(sdoc) - 1) :
           /\ TableRunsOver(n)
           /\ last_of(sdoc[n]).text = <<"t","a","b"," ","2"," ","T","a","b","l","e"," ","3">>

\* C14: every split marker, whichever of the five detectors made it, names as
\* its target the page that follows its source page.
C14_TargetFollowsSource ==
    \A k \in 1..Len(smarkers) :
        smarkers[k].target_page = smarkers[k].source_page + 1

\* each of the five detectors has made a marker
C14_Witness ==
    /\ spc = "analysed"
    /\ {"CONTINUATION", "SPLIT_TABLE", "SPLIT_LIST", "SPLIT_PARAGRAPH"}
           \subseteq {smarkers[k].split_type : k \in 1..Len(smarkers)}
    /\ \E k \in 1..Len(smarkers) :
           smarkers[k].split_type \in {"SPLIT_HEADER", "SPLIT_FOOTER"}

-----------------------------------------------------------------------------
(* Element creation in process_pdf (pipeline.py lines 315-375), seen on    *)
(* one block.                                                              *)

\* C20: every merged block with text and a four-coordinate bounding box
\* yields an Element, whatever its style flags and word count are: element
\* creation drops no well-formed block.
C20_WellFormedBlockYieldsElement ==
    ( /\ cpc \in {"created", "dropped", "classified"}
      /\ cblock.text # <<>>
      /\ Len(cblock.bbox) = 4 )
    => cpc # "dropped"

-----------------------------------------------------------------------------
(* processor/pipeline.py, process_pdf: the run over the pages of one       *)
(* document.  A raw block is the dict of its text, bbox (has_bbox: the key *)
(* is there), style_info (style_none: the value is None) and of whether    *)
(* its metadata has table_data.  An element of the run is the record of    *)
(* its text, element_type, bbox, confidence, style_info, list_group_id and *)
(* page_number, and of whether list_grouper has turned it into a dict.     *)

\* _extract_text_blocks, line 735: the size of the first character of a
\* block, which the block carries as style_info['median_font_size']; the bold
\* blocks of the sample pages are set in 14pt and the others in 11pt
ExtractedCharSize(is_bold) == IF is_bold THEN 140 ELSE 110

\* the style_info of _extract_text_blocks for a reader of font_name,
\* font_size, is_bold, is_italic and median_font_size: the first two keys
\* are absent
PipelineStyle(is_bold) ==
    [font_name |-> "", font_size |-> 0, is_bold |-> is_bold, is_italic |-> FALSE,
     median_font_size |-> ExtractedCharSize(is_bold)]

RawBlock(text, bbox, has_bbox, is_bold, style_none, table_data) ==
    [text |-> text, bbox |-> bbox, has_bbox |-> has_bbox,
     style_info |-> PipelineStyle(is_bold), style_none |-> style_none,
     table_data |-> table_data]

\* np.median of a non-empty list of sizes: the middle of the sorted list, the
\* mean of the two middle values when the length is even
SizesBelow(sizes, n) ==
    Cardinality({k \in 1..Len(sizes) :
        sizes[k] < sizes[n] \/ (sizes[k] = sizes[n] /\ k < n)})

SizeOfRank(sizes, r) ==
    sizes[CHOOSE n \in 1..Len(sizes) : SizesBelow(sizes, n) = r - 1]

Median(sizes) ==
    IF Len(sizes) % 2 = 1 THEN SizeOfRank(sizes, (Len(sizes) + 1) \div 2)
    ELSE (SizeOfRank(sizes, Len(sizes) \div 2)
          + SizeOfRank(sizes, Len(sizes) \div 2 + 1)) \div 2

\* the sizes _collect_page_statistics appends to font_sizes: that of the
\* first character of every line of the page's text boxes with text, here
\* one line for every block that comes from the page layout
page_font_sizes(raw_blocks) ==
    LET from_layout == SelectSeq(raw_blocks,
                           LAMBDA b : ~b.style_none /\ Strip(b.text) # <<>>)
    IN  [n \in 1..Len(from_layout) |-> from_layout[n].style_info.median_font_size]

\* _collect_page_statistics, lines 909-962, for a reader of font_sizes and
\* median_font_size
collect_page_statistics(raw_blocks) ==
    [font_sizes |-> page_font_sizes(raw_blocks),
     median_font_size |-> IF page_font_sizes(raw_blocks) # <<>>
                          THEN Median(page_font_sizes(raw_blocks))
                          ELSE DefaultMedianFontSize]

\* font_sizes of _calculate_document_statistics: how often each size occurs
\* on the pages
RECURSIVE all_font_sizes(_, _)
all_font_sizes(page_stats, n) ==
    IF n = 0 THEN <<>>
    ELSE all_font_sizes(page_stats, n - 1) \o page_stats[n].font_sizes

size_count(sizes, size) == Cardinality({k \in 1..Len(sizes) : sizes[k] = size})

\* the sizes in the order of their first occurrence
RECURSIVE distinct_sizes(_, _)
distinct_sizes(sizes, n) ==
    IF n = 0 THEN <<>>
    ELSE LET before == distinct_sizes(sizes, n - 1)
         IN  IF \E k \in 1..(n - 1) : sizes[k] = sizes[n] THEN before
             ELSE Append(before, sizes[n])

\* lines 1027-1029: the stable sort by falling count, cut to five sizes
common_font_sizes(sizes) ==
    LET distinct == distinct_sizes(sizes, Len(sizes))
        rank(n) == Cardinality({k \in 1..Len(distinct) :
                      \/ size_count(sizes, distinct[k]) > size_count(sizes, distinct[n])
                      \/ /\ size_count(sizes, distinct[k]) = size_count(sizes, distinct[n])
                         /\ k < n})
        sorted == [r \in 1..Len(distinct) |->
                      distinct[CHOOSE n \in 1..Len(distinct) : rank(n) = r - 1]]
    IN  SubSeq(sorted, 1, IF Len(sorted) < 5 THEN Len(sorted) ELSE 5)

\* _calculate_document_statistics, lines 964-1035, with the key tables that
\* line 263 adds: the dict has no key median_font_size.  The averages stay 0:
\* the statistics pass leaves a line at its first character and so collects
\* no line height or word spacing, and no page has char_widths.
calculate_document_statistics(page_stats) ==
    IF page_stats = <<>> THEN [tables |-> <<>>]
    ELSE [total_pages |-> Len(page_stats),
          avg_line_height |-> 0, avg_word_spacing |-> 0, avg_char_width |-> 0,
          common_font_sizes |->
              common_font_sizes(all_font_sizes(page_stats, Len(page_stats))),
          common_font_families |-> <<>>,
          tables |-> <<>>]

\* line 274
EmptyStructureInfo == [pages |-> <<>>, split_markers |-> <<>>]

\* spatial_grouper.merge_text_blocks raises: the sort key reads bbox[1] and
\* bbox[0] of every block; with two blocks or more the loop reads bbox[3] and
\* style_info.get of every block
merge_raises(raw_blocks) ==
    \/ \E n \in 1..Len(raw_blocks) :
          ~raw_blocks[n].has_bbox \/ Len(raw_blocks[n].bbox) < 2
    \/ /\ Len(raw_blocks) >= 2
       /\ \E n \in 1..Len(raw_blocks) :
             Len(raw_blocks[n].bbox) < 4 \/ raw_blocks[n].style_none

\* lines 304-311: the merged blocks of a page, or the raw blocks when
\* merge_text_blocks raises; the blocks with table_data of PipelinePages have
\* no style_info, so that none of them comes out of merge_text_blocks
merged_page_blocks(raw_blocks) ==
    IF merge_raises(raw_blocks)
    THEN [blocks |-> raw_blocks, raised |-> TRUE]
    ELSE LET merged == merge_text_blocks(
                 [n \in 1..Len(raw_blocks) |->
                     Block(raw_blocks[n].text, raw_blocks[n].bbox,
                           raw_blocks[n].style_info, "none", 600, 800)])
         IN  [blocks |-> [n \in 1..Len(merged) |->
                             [text |-> merged[n].text, bbox |-> merged[n].bbox,
                              has_bbox |-> TRUE, style_info |-> merged[n].style_info,
                              style_none |-> FALSE, table_data |-> FALSE]],
              raised |-> FALSE]

\* lines 316-375, one round of the loop: the block is skipped (no bbox key),
\* raises (ElementType.HEADING, or .get of a style_info that is None) or
\* becomes an Element, a TABLE_BODY when its metadata has table_data; a bbox
\* not of four coordinates is replaced by [0, 0, 0, 0]
create_page_element(block, page_num) ==
    IF ~block.has_bbox THEN [outcome |-> "skipped", element |-> NoElem]
    ELSE LET bbox == IF Len(block.bbox) # 4 THEN <<0, 0, 0, 0>> ELSE block.bbox
             made == IF block.table_data
                     THEN [dropped |-> FALSE,
                           element |-> Element(Strip(block.text), "TABLE_BODY", bbox, 0)]
                     ELSE create_element([block EXCEPT !.bbox = bbox])
         IN  IF made.dropped THEN [outcome |-> "raised", element |-> NoElem]
             ELSE IF block.style_none /\ made.element.element_type = UNKNOWN
             THEN [outcome |-> "raised", element |-> NoElem]
             ELSE [outcome |-> "created",
                   element |-> [text |-> made.element.text,
                                element_type |-> made.element.element_type,
                                bbox |-> bbox, confidence |-> 0,
                                style_info |-> block.style_info,
                                style_none |-> block.style_none,
                                list_group_id |-> 0, page_number |-> page_num,
                                as_dict |-> FALSE]]

create_made(run, made, page_num, n) ==
    [elements |-> IF made.outcome = "created"
                  THEN Append(run.elements, made.element) ELSE run.elements,
     log |-> IF made.outcome = "raised"
             THEN Append(run.log, [event |-> "create_error", page |-> page_num, index |-> n])
             ELSE run.log]

\* lines 314-375: the elements of the page and the errors logged on the way
RECURSIVE create_page_elements(_, _, _, _)
create_page_elements(blocks, page_num, n, run) ==
    IF n > Len(blocks) THEN run
    ELSE create_page_elements(blocks, page_num, n + 1,
             create_made(run, create_page_element(blocks[n], page_num), page_num, n))

\* classify_element raises: line 54 writes into a style_info that is None;
\* without the nltk resources of text_analysis.py lines 9-16, get_text_stats
\* raises LookupError for the texts that is_possible_title hands to it
classify_raises(element, nltk_data) ==
    \/ element.style_none
    \/ ~nltk_data /\ Len(Strip(element.text)) >= 2

\* the elements_before of line 387, as classify_element reads them
elements_before_of(elements, i) ==
    [k \in 1..(i - (IF i > 3 THEN i - 3 ELSE 1)) |->
        LET e == elements[(IF i > 3 THEN i - 3 ELSE 1) + k - 1]
        IN  Element(e.text, e.element_type, e.bbox, e.confidence)]

\* lines 381-447, one round of the loop: the element after
\* classify_element, or TEXT with confidence 0.0 after an exception
classify_one(elements, i, nltk_data, context) ==
    IF elements[i].style_none
    THEN [elements EXCEPT ![i].element_type = "TEXT", ![i].confidence = 0]
    ELSE IF classify_raises(elements[i], nltk_data)
    THEN [elements EXCEPT ![i].element_type = "TEXT", ![i].confidence = 0,
                          ![i].style_info.median_font_size =
                              context_median_font_size(context)]
    ELSE LET typed == typed_element(
                 Element(elements[i].text, elements[i].element_type,
                         elements[i].bbox, elements[i].confidence),
                 classify_element(elements[i].text, elements[i].bbox,
                     extracted_style_info(elements[i].style_info), PageInfo,
                     context, elements_before_of(elements, i), 1))
         IN  [elements EXCEPT ![i].element_type = typed.element_type,
                              ![i].confidence = typed.confidence,
                              ![i].style_info.median_font_size =
                                  context_median_font_size(context)]

classify_logged(run, i, nltk_data, page_num) ==
    [elements |-> classify_one(run.elements, i, nltk_data, run.context),
     context |-> run.context,
     log |-> IF classify_raises(run.elements[i], nltk_data)
             THEN Append(run.log, [event |-> "classify_error", page |-> page_num, index |-> i])
             ELSE run.log]

\* lines 380-447: the classified elements of the page
RECURSIVE classify_page_elements(_, _, _, _)
classify_page_elements(run, i, nltk_data, page_num) ==
    IF i > Len(run.elements) THEN run
    ELSE classify_page_elements(classify_logged(run, i, nltk_data, page_num),
                                i + 1, nltk_data, page_num)

\* list_grouper.group_consecutive_list_items, lines 9-61: every element
\* becomes its __dict__; no element_type equals 'list_item', so no group is
\* made
group_list_items_as_dicts(elements) ==
    [n \in 1..Len(elements) |-> [elements[n] EXCEPT !.as_dict = TRUE]]

\* lines 449-458: the two groupings of the page
grouped_page_elements(grouped, group_lists) ==
    [elements |-> IF group_lists THEN group_list_items_as_dicts(grouped.elements)
                  ELSE grouped.elements,
     uuid |-> grouped.uuid]

\* get_sort_key, lines 465-470
SortKeyBefore(a, b) ==
    \/ a.page_number < b.page_number
    \/ a.page_number = b.page_number /\ a.bbox[2] < b.bbox[2]

RECURSIVE InsertElement(_, _)
InsertElement(sorted, e) ==
    IF sorted = <<>> THEN <<e>>
    ELSE IF SortKeyBefore(e, sorted[Len(sorted)])
         THEN Append(InsertElement(SubSeq(sorted, 1, Len(sorted) - 1), e), sorted[Len(sorted)])
         ELSE Append(sorted, e)

\* all_elements.sort(key=get_sort_key), line 472: a stable sort
RECURSIVE SortElements(_, _)
SortElements(elements, n) ==
    IF n = 0 THEN <<>> ELSE InsertElement(SortElements(elements, n - 1), elements[n])

-----------------------------------------------------------------------------
(* The run of process_pdf over a document.                                 *)

PlainBlock == RawBlock(<<"T","h","i","s"," ","i","s"," ","a"," ","t","e","s","t",".">>, <<50, 700, 300, 712>>, TRUE, FALSE, FALSE, FALSE)
FirstItem  == RawBlock(<<"1","."," ","a">>, <<50, 600, 300, 612>>, TRUE, FALSE, FALSE, FALSE)
SecondItem == RawBlock(<<"2","."," ","b">>, <<52, 590, 300, 598>>, TRUE, FALSE, FALSE, FALSE)
BoldBlock  == RawBlock(<<"S","E","C","T","I","O","N"," ","O","N","E">>, <<50, 750, 300, 762>>, TRUE, TRUE, FALSE, FALSE)
ShortBox   == RawBlock(<<"b","a","d"," ","b","o","x">>, <<50, 500, 300>>, TRUE, FALSE, FALSE, FALSE)
NoBox      == RawBlock(<<"n","o"," ","b","o","x">>, <<>>, FALSE, FALSE, FALSE, FALSE)
NoneStyle  == RawBlock(<<"3","."," ","c">>, <<50, 400, 300, 412>>, TRUE, FALSE, TRUE, FALSE)
EmptyText  == RawBlock(<<" ">>, <<50, 300, 300, 312>>, TRUE, FALSE, FALSE, FALSE)
EmptyTable == RawBlock(<<" ">>, <<50, 200, 300, 212>>, TRUE, FALSE, TRUE, TRUE)

\* the raw blocks of a page
PipelinePages == {
    <<>>,
    <<PlainBlock>>,
    <<PlainBlock, FirstItem>>,
    <<FirstItem, SecondItem>>,
    <<PlainBlock, ShortBox>>,
    <<ShortBox, FirstItem, PlainBlock>>,
    <<NoBox, PlainBlock>>,
    <<NoneStyle, PlainBlock>>,
    <<PlainBlock, NoneStyle, FirstItem>>,
    <<BoldBlock, PlainBlock>>,
    <<EmptyText, PlainBlock>>,
    <<EmptyTable, PlainBlock>> }

MaxPipelinePages == 2

PipelineDocuments == UNION { [1..n -> PipelinePages] : n \in 1..MaxPipelinePages }

InitPipeline ==
    /\ pdoc = <<>>
    /\ prun = <<>>
    /\ ppc = "start"
    /\ IdleClassify /\ IdleMerge /\ IdleAnalyzer /\ IdleLists
    /\ IdleCaptions /\ IdleStructure /\ IdleColumns

\* lines 63-283: process_pdf is called on a document; the first pass takes
\* the raw blocks of every page, and structure_info is made empty
StartRun ==
    /\ ppc = "start"
    /\ \E doc \in PipelineDocuments, group_lists \in BOOLEAN, nltk_data \in BOOLEAN :
          /\ pdoc' = doc
          /\ prun' = [group_lists |-> group_lists, nltk_data |-> nltk_data,
                      page |-> 1, blocks |-> <<>>, page_elements |-> <<>>,
                      all_elements |-> <<>>, log |-> <<>>, uuid |-> 0,
                      page_stats |-> [n \in 1..Len(doc) |-> collect_page_statistics(doc[n])],
                      doc_stats |-> calculate_document_statistics(
                          [n \in 1..Len(doc) |-> collect_page_statistics(doc[n])]),
                      structure_info |-> EmptyStructureInfo]
    /\ ppc' = "page"
    /\ UNCHANGED NotPipeline

\* lines 299-301: a page without raw blocks is passed over
SkipPage ==
    /\ ppc = "page"
    /\ prun.page <= Len(pdoc)
    /\ pdoc[prun.page] = <<>>
    /\ prun' = [prun EXCEPT !.page = prun.page + 1]
    /\ UNCHANGED <<pdoc, ppc>>
    /\ UNCHANGED NotPipeline

merge_page(run, merged) ==
    [run EXCEPT !.blocks = merged.blocks,
                !.page_elements = <<>>,
                !.log = IF merged.raised
                        THEN Append(run.log, [event |-> "merge_error", page |-> run.page,
                                              index |-> 0])
                        ELSE run.log]

\* lines 303-311: the raw blocks of the page are merged
MergePage ==
    /\ ppc = "page"
    /\ prun.page <= Len(pdoc)
    /\ pdoc[prun.page] # <<>>
    /\ prun' = merge_page(prun, merged_page_blocks(pdoc[prun.page]))
    /\ ppc' = "merged"
    /\ UNCHANGED pdoc
    /\ UNCHANGED NotPipeline

with_page_elements(run, made) ==
    [run EXCEPT !.page_elements = made.elements, !.log = made.log]

\* lines 313-375: the elements of the page are created
CreatePageElements ==
    /\ ppc = "merged"
    /\ prun' = with_page_elements(prun,
                   create_page_elements(prun.blocks, prun.page, 1,
                                        [elements |-> <<>>, log |-> prun.log]))
    /\ ppc' = "created"
    /\ UNCHANGED pdoc
    /\ UNCHANGED NotPipeline

\* lines 380-447: the elements of the page are classified
ClassifyPageElements ==
    /\ ppc = "created"
    /\ prun' = with_page_elements(prun,
                   classify_page_elements([elements |-> prun.page_elements, log |-> prun.log,
                                           context |-> prun.doc_stats],
                                          1, prun.nltk_data, prun.page))
    /\ ppc' = "classified"
    /\ UNCHANGED pdoc
    /\ UNCHANGED NotPipeline

group_page(run, grouped) ==
    [run EXCEPT !.page_elements = grouped.elements,
                !.all_elements = run.all_elements \o grouped.elements,
                !.uuid = grouped.uuid,
                !.page = run.page + 1]

\* lines 449-460: the list items of the page are grouped and the page's
\* elements join those of the document
GroupPageLists ==
    /\ ppc = "classified"
    /\ prun' = group_page(prun,
                   grouped_page_elements(
                       group_consecutive_list_items(prun.page_elements, prun.group_lists,
                                                    max_list_gap, max_indent_diff, prun.uuid),
                       prun.group_lists))
    /\ ppc' = "page"
    /\ UNCHANGED pdoc
    /\ UNCHANGED NotPipeline

\* lines 462-474: after the last page the elements are sorted and returned
\* with structure_info
ReturnElements ==
    /\ ppc = "page"
    /\ prun.page > Len(pdoc)
    /\ prun' = [prun EXCEPT !.all_elements = SortElements(prun.all_elements,
                                                          Len(prun.all_elements))]
    /\ ppc' = "returned"
    /\ UNCHANGED pdoc
    /\ UNCHANGED NotPipeline

\* a step of a run that has started
RunStep ==
    \/ SkipPage
    \/ MergePage
    \/ CreatePageElements
    \/ ClassifyPageElements
    \/ GroupPageLists
    \/ ReturnElements

NextPipeline == StartRun \/ RunStep

SpecPipeline == InitPipeline /\ [][NextPipeline]_vars

\* the steps of a run that change its position, seen on the position alone
PositionStep ==
    \/ ppc = "page" /\ prun.page <= Len(pdoc) /\ pdoc[prun.page] # <<>> /\ ppc' = "merged"
    \/ ppc = "merged" /\ ppc' = "created"
    \/ ppc = "created" /\ ppc' = "classified"
    \/ ppc = "classified" /\ ppc' = "page"
    \/ ppc = "page" /\ prun.page > Len(pdoc) /\ ppc' = "returned"

\* a run that has started goes on to its end: process_pdf is straight-line
\* code, so each step is taken once it can be
FairSpecPipeline == SpecPipeline /\ WF_ppc(PositionStep) /\ WF_vars(SkipPage)

-----------------------------------------------------------------------------
(* Properties of the run of process_pdf.                                   *)

\* merging, classification and list grouping have finished for every page
AllPagesFinished == ppc = "returned" \/ (ppc = "page" /\ prun.page > Len(pdoc))

\* C15: in a run of process_pdf the Document Structure Analyzer runs, and it
\* starts only after merging, classification and list grouping have finished
\* for every page of the document.
C15_StructureAnalysisAfterPages ==
    /\ (ppc = "page") ~> (spc = "analysed")
    /\ [](spc # "idle" => AllPagesFinished)

\* the classification of element i of the page has raised: the warning of
\* line 442 is in the log
ClassifyErrorAt(i) ==
    \E k \in 1..Len(prun.log) :
        prun.log[k] = [event |-> "classify_error", page |-> prun.page, index |-> i]

ElementOfBlock(n) ==
    \E i \in 1..Len(prun.page_elements) :
        prun.page_elements[i].text = Strip(prun.blocks[n].text)

-----------------------------------------------------------------------------
(* Properties of the markers of the structure analysis.                    *)

Analysed == spc \in {"analysed", "read"}

\* the blocks of page n whose bounding box is bbox
BlocksAt(n, bbox) ==
    {j \in 1..Len(sdoc[n].blocks) : sdoc[n].blocks[j].bbox = bbox}

StartsWithCapital(text) ==
    Strip(text) # <<>> /\ Strip(text)[1] \in UpperChars

EndsInSentencePunctuation(text) ==
    \E c \in {".", "!", "?"} : EndsWith(Strip(text), <<c>>)

\* C25: a SPLIT_PARAGRAPH marker is produced for a page pair only when the
\* last block of the first page is a TEXT block that is not bullet-prefixed
\* and does not end in sentence punctuation, the first block of the next page
\* is a TEXT block that does not start with a capital letter, and the two
\* blocks have the same font.
C25_SplitParagraphOnlyWhenTextFlows ==
    Analysed =>
        \A n \in 1..(Len(sdoc) - 1) :
            MarkersFrom("SPLIT_PARAGRAPH", n) # {} =>
                /\ sdoc[n].blocks # <<>> /\ sdoc[n + 1].blocks # <<>>
                /\ last_of(sdoc[n]).element_type = "TEXT"
                /\ ~StartsWith(Strip(last_of(sdoc[n]).text), <<"-">>)
                /\ ~EndsInSentencePunctuation(last_of(sdoc[n]).text)
                /\ first_of(sdoc[n + 1]).element_type = "TEXT"
                /\ ~StartsWithCapital(first_of(sdoc[n + 1]).text)
                /\ last_of(sdoc[n]).style_info.font
                       = first_of(sdoc[n + 1]).style_info.font

\* C28: the source bounding box of every marker is the bounding box of a
\* block on the marker's source page, and its target bounding box, when there
\* is one, is the bounding box of a block on the marker's target page.
C28_BoxesLieOnTheirPages ==
    Analysed =>
        \A k \in 1..Len(smarkers) :
            /\ smarkers[k].source_page \in 1..Len(sdoc)
            /\ BlocksAt(smarkers[k].source_page, smarkers[k].source_bbox) # {}
            /\ smarkers[k].target_bbox # <<>> =>
                   /\ smarkers[k].target_page \in 1..Len(sdoc)
                   /\ BlocksAt(smarkers[k].target_page, smarkers[k].target_bbox) # {}

\* the CONTINUATION markers of the pair (n, n + 1) made for a block
ContinuationMarkersOf(n, block) ==
    {k \in MarkersFrom("CONTINUATION", n) : smarkers[k].source_bbox = block.bbox}

\* C29: for each pair of adjacent pages at most one CONTINUATION marker is
\* made per boundary block (the last block of page N, the first block of page
\* N+1), however many continuation phrases the text of the block matches.
C29_OneContinuationPerBoundaryBlock ==
    Analysed =>
        \A n \in 1..(Len(sdoc) - 1) :
            /\ sdoc[n].blocks # <<>> =>
                   Cardinality(ContinuationMarkersOf(n, last_of(sdoc[n]))) <= 1
            /\ sdoc[n + 1].blocks # <<>> =>
                   Cardinality(ContinuationMarkersOf(n, first_of(sdoc[n + 1]))) <= 1

-----------------------------------------------------------------------------
(* The confidence and the font baseline of a classification.               *)

\* one of the rules 5 to 8 of classify_element matches the block
FurnitureOfBlock ==
    \/ page_number_rule(Strip(cblock.text), cblock.bbox, PageInfo)
    \/ header_footer_rule(Strip(cblock.text), cblock.bbox, PageInfo)
    \/ footnote_rule(Strip(cblock.text), cblock.bbox, PageInfo)
    \/ contact_info_rule(Strip(cblock.text))

\* the rule for other titles is the one that decides the type of the block:
\* no rule before it has matched and no rule after it matches
GenericTitleDecides ==
    /\ ~is_section_title(Strip(cblock.text), TitleOfBlock)
    /\ ~is_list_item(Strip(cblock.text))
    /\ is_generic_title(TitleOfBlock)
    /\ ~is_block_equation(Strip(cblock.text))
    /\ ~FurnitureOfBlock

\* the list rule is the one that decides the type of the block
ListItemDecides ==
    /\ ~is_section_title(Strip(cblock.text), TitleOfBlock)
    /\ is_list_item(Strip(cblock.text))
    /\ ~is_block_equation(Strip(cblock.text))
    /\ ~FurnitureOfBlock

\* C21: the confidence stored on an element is the confidence of the rule
\* that decided its type: 0.9 for the list rule, the title score of
\* is_possible_title for the rule of other titles; it is not the default
\* value and not the confidence of a rule that did not decide the type.
C21_ConfidenceOfDecidingRule ==
    (cpc = "called" /\ Strip(cblock.text) # <<>>) =>
        /\ ListItemDecides =>
               (cres.element_type = "LIST_ITEM" /\ cres.confidence = 90)
        /\ GenericTitleDecides =>
               (cres.element_type = "TITLE"
                /\ cres.confidence = TitleOfBlock.confidence)

\* the font sizes the statistics pass has collected on all pages
DocumentFontSizes == all_font_sizes(prun.page_stats, Len(prun.page_stats))

-----------------------------------------------------------------------------
(* Nested items and wrapped lines in the list operations.                  *)

\* the page is a list whose first item starts the group and whose other
\* items are indented by 10 to 50 points against it
NestedItems ==
    /\ Len(lelems) >= 2
    /\ \A n \in 1..Len(lelems) : lelems[n].is_list
    /\ \A n \in 2..Len(lelems) :
           /\ 10 <= lelems[n].bbox[1] - lelems[1].bbox[1]
           /\ lelems[n].bbox[1] - lelems[1].bbox[1] <= 50

\* C23: a ListItem whose indent is 10 to 50 points deeper than the indent at
\* which the current group started is tagged with a nested list level and
\* stays in the current group: on a page of one item and nested items under
\* it, every nested item comes back with a list level.
C23_NestedItemsAreTagged ==
    (lpc = "regrouped" /\ NestedItems) =>
        /\ Len(lout) = Len(lelems)
        /\ \A n \in 2..Len(lout) :
               /\ lout[n].text = lelems[n].text
               /\ lout[n].list_level # -1

\* the second element is narrative text right under the list item before it,
\* in the same font and aligned with the item's text, 20 points to the right
\* of its bullet
WrappedLine ==
    /\ Len(lelems) >= 2
    /\ lelems[1].is_list /\ ~lelems[2].is_list
    /\ Abs(lelems[1].bbox[4] - lelems[2].bbox[2]) <= 5
    /\ Abs(lelems[2].bbox[1] - (lelems[1].bbox[1] + 20)) <= 5
    /\ lelems[1].font_name = lelems[2].font_name
    /\ lelems[1].font_size = lelems[2].font_size

\* C24: a NarrativeText block that immediately follows a ListItem, is
\* vertically adjacent to it and is aligned with the text column of the item,
\* not with its bullet, is merged into the text of the item and is not
\* emitted as an element of its own.
C24_WrappedLineIsMerged ==
    (lpc \in {"grouped", "regrouped"} /\ WrappedLine) =>
        /\ Len(lout) < Len(lelems)
        /\ lout[1].text = lelems[1].text \o <<"\n">> \o lelems[2].text

-----------------------------------------------------------------------------
(* core/pdf_text_extractor.py, PDFTextExtractor: the columns of a page.  A *)
(* page is the record of its width and of the objects of its layout; an    *)
(* object is the record of its class, its text and its x0, y0, x1 and y1.  *)
(* A column is the pair of its left and right edge.  A ratio is an integer *)
(* number of hundredths.                                                   *)

LayoutObject(class, text, x0, y0, x1, y1) ==
    [class |-> class, text |-> text, x0 |-> x0, y0 |-> y0, x1 |-> x1, y1 |-> y1]

\* list.sort and sorted with a key: a stable sort by rising key
RECURSIVE InsertByKey(_, _)
InsertByKey(sorted, e) ==
    IF sorted = <<>> THEN <<e>>
    ELSE IF e.key < sorted[Len(sorted)].key
         THEN Append(InsertByKey(SubSeq(sorted, 1, Len(sorted) - 1), e),
                     sorted[Len(sorted)])
         ELSE Append(sorted, e)

RECURSIVE SortByKey(_, _)
SortByKey(keyed, n) ==
    IF n = 0 THEN <<>> ELSE InsertByKey(SortByKey(keyed, n - 1), keyed[n])

SortedBy(seq, Key(_)) ==
    LET sorted == SortByKey([n \in 1..Len(seq) |-> [key |-> Key(seq[n]), val |-> seq[n]]],
                            Len(seq))
    IN  [n \in 1..Len(seq) |-> sorted[n].val]

\* detect_columns, lines 33-39: the text boxes that count for the columns
is_column_box(b) ==
    /\ b.class = "LTTextBoxHorizontal"
    /\ Len(Strip(b.text)) > 1
    /\ b.x1 - b.x0 > 10
    /\ b.y1 - b.y0 > 5

\* lines 57-65: the two boxes overlap vertically by more than 30% of the
\* taller one and lie more than min_gap apart
is_column_gap(prev, curr, page_width, min_gap_ratio) ==
    /\ curr.y1 > prev.y0 /\ curr.y0 < prev.y1
    /\ 100 * (curr.x0 - prev.x1) > min_gap_ratio * page_width
    /\ 10 * (Min2(curr.y1, prev.y1) - Max2(curr.y0, prev.y0))
           > 3 * Max2(curr.y1 - curr.y0, prev.y1 - prev.y0)

\* lines 52-65: the gaps between neighbours of the sorted boxes, each with
\* the x0 of the box to its right and its size
gaps_between(text_boxes, page_width, min_gap_ratio) ==
    LET pairs == [i \in 1..(Len(text_boxes) - 1) |->
                     [x1 |-> text_boxes[i + 1].x0,
                      gap |-> text_boxes[i + 1].x0 - text_boxes[i].x1,
                      counts |-> is_column_gap(text_boxes[i], text_boxes[i + 1],
                                               page_width, min_gap_ratio)]]
    IN  SelectSeq(pairs, LAMBDA g : g.counts)

\* lines 71-77: the right edges of the max_columns - 1 = 2 largest gaps, from
\* left to right
column_gaps_of(gaps) ==
    LET largest_first == SortedBy(gaps, LAMBDA g : 0 - g.gap)
        taken == SubSeq(largest_first, 1, Min2(2, Len(largest_first)))
    IN  SortedBy([n \in 1..Len(taken) |-> taken[n].x1], LAMBDA x : x)

\* a faulty variant of column_bounds: the column after the last gap is left
\* out
column_bounds_without_last(column_gaps, page_width) ==
    [n \in 1..Len(column_gaps) |->
        <<IF n = 1 THEN 0 ELSE column_gaps[n - 1], column_gaps[n]>>]

\* lines 79-88: the columns between 0, the gaps and the page width
column_bounds(column_gaps, page_width) ==
    [n \in 1..(Len(column_gaps) + 1) |->
        <<IF n = 1 THEN 0 ELSE column_gaps[n - 1],
          IF n = Len(column_gaps) + 1 THEN page_width ELSE column_gaps[n]>>]

\* a faulty variant of merged_columns: no column is merged
unmerged_columns(columns, i, page_width) == columns

\* lines 90-106: a column whose right neighbour is not wider than 15% of the
\* page width takes that neighbour in
RECURSIVE merged_columns(_, _, _)
merged_columns(columns, i, page_width) ==
    IF i > Len(columns) THEN <<>>
    ELSE IF \/ i = Len(columns)
            \/ 100 * (columns[i + 1][2] - columns[i + 1][1]) > 15 * page_width
         THEN <<columns[i]>> \o merged_columns(columns, i + 1, page_width)
         ELSE <<<<columns[i][1], columns[i + 1][2]>>>>
              \o merged_columns(columns, i + 2, page_width)

\* PDFTextExtractor.detect_columns(page, min_gap_ratio)
detect_columns(page, min_gap_ratio) ==
    LET text_boxes == SortedBy(SelectSeq(page.objs, is_column_box), LAMBDA b : b.x0)
        gaps == gaps_between(text_boxes, page.width, min_gap_ratio)
    IN  IF text_boxes = <<>> \/ gaps = <<>> THEN <<<<0, page.width>>>>
        ELSE merged_columns(column_bounds(column_gaps_of(gaps), page.width), 1, page.width)

\* process_page_columns, lines 151-157: the text boxes that are returned
is_reading_box(b) ==
    /\ b.class = "LTTextBoxHorizontal"
    /\ Len(Strip(b.text)) > 0
    /\ b.x1 - b.x0 > 5
    /\ b.y1 - b.y0 > 2

\* lines 172-179: the first column that holds the centre of the box, 0 when
\* none does
column_of_box(box, columns) ==
    LET holding == {i \in 1..Len(columns) :
                       /\ 2 * columns[i][1] <= box.x0 + box.x1
                       /\ box.x0 + box.x1 <= 2 * columns[i][2]}
    IN  IF holding = {} THEN 0 ELSE CHOOSE i \in holding : \A k \in holding : i <= k

\* lines 181-193: the boxes of the columns from the left, each column from
\* the top
RECURSIVE boxes_by_column(_, _, _)
boxes_by_column(text_boxes, columns, i) ==
    IF i > Len(columns) THEN <<>>
    ELSE SortedBy(SelectSeq(text_boxes, LAMBDA b : column_of_box(b, columns) = i),
                  LAMBDA b : 0 - b.y1)
         \o boxes_by_column(text_boxes, columns, i + 1)

\* PDFTextExtractor.process_page_columns(page), with the columns it was
\* given by detect_columns(page); line 167 sorts by (-y1, x0)
process_page_columns(page, columns) ==
    LET text_boxes == SelectSeq(page.objs, is_reading_box)
    IN  IF text_boxes = <<>> THEN <<>>
        ELSE IF Len(columns) <= 1
        THEN SortedBy(SortedBy(text_boxes, LAMBDA b : b.x0), LAMBDA b : 0 - b.y1)
        ELSE boxes_by_column(text_boxes, columns, 1)

-----------------------------------------------------------------------------
(* One page and its columns.                                               *)

\* the default of min_gap_ratio, 0.15
min_gap_ratio == 15



MaxPageObjects == 4

\* four boxes of one line of text 95 points apart, the last of them 35 points
\* from the right edge of the page; a box further down the page, a box of one
\* character, a figure, and a box that shares a quarter of its height with
\* the line
SampleObjects == {
    LayoutObject("LTTextBoxHorizontal", <<"a","b">>, 10, 700, 100, 712),
    LayoutObject("LTTextBoxHorizontal", <<"c","d">>, 195, 700, 285, 712),
    LayoutObject("LTTextBoxHorizontal", <<"e","f">>, 380, 700, 470, 712),
    LayoutObject("LTTextBoxHorizontal", <<"g","h">>, 565, 700, 595, 712),
    LayoutObject("LTTextBoxHorizontal", <<"i","j">>, 295, 100, 375, 112),
    LayoutObject("LTTextBoxHorizontal", <<"k">>, 195, 720, 285, 732),
    LayoutObject("LTFigure", <<>>, 110, 650, 190, 750),
    LayoutObject("LTTextBoxHorizontal", <<"m","n">>, 380, 709, 470, 721) }

ColumnPages ==
    { [width |-> 600, objs |-> objs] :
        objs \in UNION {[1..n -> SampleObjects] : n \in 0..MaxPageObjects} }

InitColumns ==
    /\ tpage = <<>>
    /\ tcolumns = <<>>
    /\ tboxes = <<>>
    /\ tpc = "start"
    /\ IdleClassify /\ IdleMerge /\ IdleAnalyzer /\ IdleLists
    /\ IdleCaptions /\ IdleStructure /\ IdlePipeline

\* pdfminer has laid out a page
TakePage ==
    /\ tpc = "start"
    /\ tpage' \in ColumnPages
    /\ tpc' = "page"
    /\ UNCHANGED <<tcolumns, tboxes>>
    /\ UNCHANGED NotColumns

\* PDFTextExtractor.detect_columns(page)
DetectColumns ==
    /\ tpc = "page"
    /\ tcolumns' = detect_columns(tpage, min_gap_ratio)
    /\ tpc' = "detected"
    /\ UNCHANGED <<tpage, tboxes>>
    /\ UNCHANGED NotColumns

\* PDFTextExtractor.process_page_columns(page), which calls detect_columns
\* unless the page has no text box
ProcessPageColumns ==
    /\ tpc = "page"
    /\ LET columns == detect_columns(tpage, min_gap_ratio)
       IN  /\ tcolumns' = IF SelectSeq(tpage.objs, is_reading_box) = <<>>
                          THEN <<>> ELSE columns
           /\ tboxes' = process_page_columns(tpage, columns)
    /\ tpc' = "processed"
    /\ UNCHANGED tpage
    /\ UNCHANGED NotColumns

NextColumns == TakePage \/ DetectColumns \/ ProcessPageColumns

SpecColumns == InitColumns /\ [][NextColumns]_vars

-----------------------------------------------------------------------------
(* Properties of the columns.                                              *)

\* the column is narrower than 15% of the page width
Narrow(column) == 100 * (column[2] - column[1]) < 15 * tpage.width

\* C26: whenever detect_columns returns two columns or more, none of them is
\* narrower than 15% of the page width.
C26_NoNarrowColumn ==
    (tpc \in {"detected", "processed"} /\ Len(tcolumns) >= 2) =>
        \A n \in 1..Len(tcolumns) : ~Narrow(tcolumns[n])

\* the gap before the last box of the page makes a column 35 points wide,
\* which the column before it takes in, and two columns are returned
C26_Witness ==
    /\ tpc = "detected"
    /\ Len(tpage.objs) = 3
    /\ tpage.objs[1].x0 = 10 /\ tpage.objs[2].x0 = 195 /\ tpage.objs[3].x0 = 565
    /\ tpage.objs[2].text = <<"c","d">>
    /\ tcolumns = <<<<0, 195>>, <<195, 600>>>>

\* C27: the columns detect_columns returns are a partition of the page width
\* from left to right: the first starts at 0, each next one starts where the
\* one before it ends, the last ends at the page width, there are at most
\* three, and the one column [0, page width] is returned when no gap counts.
C27_ColumnsPartitionPage ==
    tpc = "detected" =>
        /\ Len(tcolumns) \in 1..3
        /\ tcolumns[1][1] = 0
        /\ tcolumns[Len(tcolumns)][2] = tpage.width
        /\ \A n \in 1..(Len(tcolumns) - 1) : tcolumns[n + 1][1] = tcolumns[n][2]
        /\ \A n \in 1..Len(tcolumns) : tcolumns[n][1] < tcolumns[n][2]
        /\ gaps_between(SortedBy(SelectSeq(tpage.objs, is_column_box), LAMBDA b : b.x0),
                        tpage.width, min_gap_ratio) = <<>>
               => tcolumns = <<<<0, tpage.width>>>>

\* four boxes with three gaps between them: three columns are returned
C27_Witness ==
    /\ tpc = "detected"
    /\ Len(tpage.objs) = 4
    /\ \A n \in 1..4 : is_column_box(tpage.objs[n])
    /\ {tpage.objs[n].x0 : n \in 1..4} = {10, 195, 380, 565}
    /\ \A n \in 1..4 : tpage.objs[n].y0 = 700
    /\ tcolumns = <<<<0, 195>>, <<195, 380>>, <<380, 600>>>>

-----------------------------------------------------------------------------
(* Properties of the list groups of list_grouper.                          *)

IsListGroup(e) == e.element_type = "list"

\* the output with every list group replaced by its items
RECURSIVE Ungrouped(_, _)
Ungrouped(out, n) ==
    IF n = 0 THEN <<>>
    ELSE Ungrouped(out, n - 1)
         \o (IF IsListGroup(out[n]) THEN out[n].items ELSE <<out[n]>>)

\* C30: list_grouper's group_consecutive_list_items loses and duplicates
\* nothing: with every group replaced by its items the output is the input,
\* in the order of the input; the item count of every group is the number of
\* its items, and its bounding box is the union of the boxes of its items.
C30_GroupsKeepTheirItems ==
    lpc = "listed" =>
        /\ Ungrouped(lout, Len(lout))
               = [n \in 1..Len(lelems) |-> grouper_dict(lelems[n])]
        /\ \A k \in 1..Len(lout) :
               IsListGroup(lout[k]) =>
                   /\ lout[k].items # <<>>
                   /\ lout[k].metadata.item_count = Len(lout[k].items)
                   /\ lout[k].bbox = HullOf(lout[k].items)

\* three items from the top of the page down, each 5 points under the one
\* before it and the second indented, come back as one group of three
C30_Witness ==
    /\ lpc = "listed"
    /\ Len(lelems) = 3
    /\ lelems[1].text = <<"-"," ","c">>
    /\ lelems[2].bbox = <<52, 117, 300, 129>>
    /\ lelems[3].text = <<"1","."," ","a">>
    /\ Len(lout) = 1
    /\ lout[1].metadata.item_count = 3
    /\ lout[1].bbox = <<50, 100, 300, 146>>

====
